---- MODULE Spec2Model ----
(***************************************************************************)
(* Model of the LXC uid/gid mapping helpers of oci-lxc-deployer            *)
(* (json/shared/scripts/library/setup_lxc_idmap_common.py).                *)
(*                                                                         *)
(* Text is modelled at character level: a string is a sequence of          *)
(* one-character strings, a file is such a sequence containing "\n"        *)
(* characters, and the Python string methods used by the code (strip,      *)
(* split, startswith, replace, int, str, readlines) are operators over     *)
(* these sequences.                                                        *)
(***************************************************************************)
EXTENDS Integers, Sequences, FiniteSets, TLC

VARIABLES
    pc,             \* position of the calling script
    kind,           \* "u" or "g"
    ids,            \* the Iterable[int] handed to the allocator
    idmap_entries,  \* result of calculate_idmap_entries (list of lines)
    segments,       \* result of parse_idmap_lines (list of triples)
    container_id,   \* id handed to compute_host_id_for_container_id
    unprivileged,   \* flag handed to compute_host_id_for_container_id
    mapped_val,     \* result of compute_host_id_for_container_id
    sub_entries,    \* result of calculate_subid_entries (list of lines)
    sub_file,       \* the authorization store (/etc/subuid or /etc/subgid)
    sub_before,     \* the authorization store as it was before the last call
    config_file,    \* the container config store (<config_dir>/<vm_id>.conf)
    config_before,  \* the config store as it was before the last call
    calls,          \* number of calls made on the stores so far
    id_str,         \* the id string handed to setup_idmap
    vm_id,          \* the vm_id string handed to setup_idmap
    stdout,         \* what setup_idmap printed to stdout
    raised,         \* the exception the last call ended with, "" for none
    latest,         \* per kind, the new lines of the most recent merge call for it
    scan,           \* the scanning script: "list" (managed containers) or "find" (by app id)
    vmids,          \* vm ids of the containers to query, in the order of the scan
    pct_status,     \* per vm id, how `pct status` behaves on the host
    max_workers,    \* max_workers of the ThreadPoolExecutor, 0 while there is none
    futures,        \* per submitted query "queued", "running" or "done"
    results,        \* per submitted query the value get_status returned
    reordered,      \* a query finished while an earlier one had not
    statuses,       \* list(executor.map(get_status, vmids))
    items,          \* the containers the script printed
    writer,         \* the notes script: "compose", "pre_start" or "root"
    template,       \* the template variables as the backend substituted them
    notes_with_icon,    \* the notes rendered with the inline icon
    notes_without_icon, \* the notes rendered without it, <<>> when never rendered
    description,    \* the text handed to `pct set <vmid> --description`
    conf_text,      \* the text handed to parse_lxc_config
    config,         \* the LxcConfig parse_lxc_config returned
    addon_ids,      \* the addon ids inserted into the description so far
    first_desc,     \* the description before the first insertion
    current_desc,   \* the description the addon script read before its last insertion
    serialized,     \* the caller runs the two merge calls one after the other
    proc            \* per kind, where its merge call stands and the lines it read

allocVars == <<kind, ids, idmap_entries, segments, container_id, unprivileged, mapped_val>>

storeVars == <<sub_entries, sub_file, sub_before, config_file, config_before, calls>>

setupVars == <<id_str, vm_id, stdout, raised>>

\* state of the scripts that do not map ids, and bookkeeping of the calls made
poolVars == <<scan, vmids, pct_status, max_workers, futures, results, reordered, statuses, items>>

notesVars == <<writer, template, notes_with_icon, notes_without_icon, description>>

parseVars == <<conf_text, config, addon_ids, first_desc, current_desc>>

raceVars == <<serialized, proc>>

otherVars == <<latest, poolVars, notesVars, parseVars, raceVars>>

vars == <<pc, allocVars, storeVars, setupVars, otherVars>>

\* what the allocator actions leave alone
nonAllocVars == <<storeVars, setupVars, otherVars>>

-----------------------------------------------------------------------------
(* Program constants *)

STANDARD_START == 100000
STANDARD_COUNT == 65536

(* Bounds of the model *)

\* longest id list handed to the allocator
MaxIds == 3

\* most lines a store holds initially
MaxStoreLines == 2

\* longest id list behind the lines merged or appended into a store
MaxStoreIds == 1

\* most calls made in a row on one store
MaxCalls == 2

\* most lines each store holds before setup_idmap runs
MaxSetupLines == 1

-----------------------------------------------------------------------------
(* Python string primitives over character sequences *)

Digits == <<"0", "1", "2", "3", "4", "5", "6", "7", "8", "9">>

Whitespace == {" ", "\t", "\n", "\r"}

\* str(n) / f"{n}" for a non-negative int
RECURSIVE Dec(_)
Dec(n) ==
    IF n < 10 THEN <<Digits[n + 1]>>
    ELSE Dec(n \div 10) \o <<Digits[(n % 10) + 1]>>

DigitValue(c) == CHOOSE d \in 0..9 : Digits[d + 1] = c

IsDigits(w) == Len(w) > 0 /\ \A i \in 1..Len(w) : \E d \in 1..10 : Digits[d] = w[i]

\* int(w) for a string of decimal digits (int() raises ValueError otherwise)
RECURSIVE ToInt(_)
ToInt(w) ==
    IF Len(w) = 0 THEN 0
    ELSE 10 * ToInt(SubSeq(w, 1, Len(w) - 1)) + DigitValue(w[Len(w)])

RECURSIVE LStrip(_)
LStrip(s) ==
    IF Len(s) > 0 /\ s[1] \in Whitespace THEN LStrip(Tail(s)) ELSE s

RECURSIVE RStrip(_)
RStrip(s) ==
    IF Len(s) > 0 /\ s[Len(s)] \in Whitespace THEN RStrip(SubSeq(s, 1, Len(s) - 1)) ELSE s

\* s.strip()
Strip(s) == RStrip(LStrip(s))

\* s.startswith(p)
StartsWith(s, p) == Len(s) >= Len(p) /\ SubSeq(s, 1, Len(p)) = p

\* s.replace(a, b) for single characters a, b
Replace(s, a, b) == [i \in 1..Len(s) |-> IF s[i] = a THEN b ELSE s[i]]

Range(f) == {f[i] : i \in DOMAIN f}

SetMin(S) == CHOOSE x \in S : \A y \in S : x <= y

\* sorted(S) for a set of ints
RECURSIVE SortedList(_)
SortedList(S) ==
    IF S = {} THEN <<>> ELSE <<SetMin(S)>> \o SortedList(S \ {SetMin(S)})

\* s.split(): the maximal runs of non-whitespace characters, left to right
Split(s) ==
    LET first == SortedList({i \in 1..Len(s) :
                    s[i] \notin Whitespace /\ (i = 1 \/ s[i - 1] \in Whitespace)})
        last  == SortedList({i \in 1..Len(s) :
                    s[i] \notin Whitespace /\ (i = Len(s) \/ s[i + 1] \in Whitespace)})
    IN [j \in 1..Len(first) |-> SubSeq(s, first[j], last[j])]

\* file_handle.readlines(): lines keep their "\n"; the last may lack it
ReadLines(text) ==
    LET ends == SortedList({i \in 1..Len(text) : text[i] = "\n" \/ i = Len(text)})
    IN [j \in 1..Len(ends) |-> SubSeq(text, IF j = 1 THEN 1 ELSE ends[j - 1] + 1, ends[j])]

\* s.split(sep) for a single character sep
SplitOn(s, sep) ==
    LET cuts == SortedList({0, Len(s) + 1} \cup {i \in 1..Len(s) : s[i] = sep})
    IN [j \in 1..(Len(cuts) - 1) |-> SubSeq(s, cuts[j] + 1, cuts[j + 1] - 1)]

UpperCase == <<"A", "B", "C", "D", "E", "F", "G", "H", "I", "J", "K", "L", "M",
               "N", "O", "P", "Q", "R", "S", "T", "U", "V", "W", "X", "Y", "Z">>

LowerCase == <<"a", "b", "c", "d", "e", "f", "g", "h", "i", "j", "k", "l", "m",
               "n", "o", "p", "q", "r", "s", "t", "u", "v", "w", "x", "y", "z">>

\* s.lower()
Lower(s) ==
    [i \in 1..Len(s) |->
        IF \E j \in 1..26 : UpperCase[j] = s[i]
        THEN LowerCase[CHOOSE j \in 1..26 : UpperCase[j] = s[i]]
        ELSE s[i]]

\* file_handle.writelines(lines): plain concatenation
RECURSIVE WriteLines(_)
WriteLines(lines) ==
    IF Len(lines) = 0 THEN <<>> ELSE Head(lines) \o WriteLines(Tail(lines))

\* sorted(set(xs))
SortedSet(xs) == SortedList(Range(xs))

-----------------------------------------------------------------------------
(* calculate_idmap_entries *)

LxcIdmap == <<"l", "x", "c", ".", "i", "d", "m", "a", "p">>

\* f"lxc.idmap: {kind} {c} {h} {n}"
IdmapLine(k, c, h, n) ==
    LxcIdmap \o <<":", " ", k, " ">> \o Dec(c) \o <<" ">> \o Dec(h) \o <<" ">> \o Dec(n)

\* IdmapLoop with one of three slips: "trailing" tests current_container_id < 65535
\* before the last range, "offset" never advances host_offset, "empty" emits the
\* range before a passthrough id even when it is empty
RECURSIVE IdmapLoopSlip(_, _, _, _, _, _)
IdmapLoopSlip(slip, ids_list, k, current_container_id, host_offset, acc) ==
    IF Len(ids_list) = 0
    THEN IF (IF slip = "trailing" THEN current_container_id < 65535
                                  ELSE current_container_id <= 65535)
         THEN Append(acc, IdmapLine(k, current_container_id, host_offset,
                                    65536 - current_container_id))
         ELSE acc
    ELSE LET passthrough_id == Head(ids_list)
             gap   == IF slip = "empty" THEN current_container_id <= passthrough_id
                                        ELSE current_container_id < passthrough_id
             count == passthrough_id - current_container_id
             acc1  == IF gap
                      THEN Append(acc, IdmapLine(k, current_container_id, host_offset, count))
                      ELSE acc
             off1  == IF gap /\ slip # "offset" THEN host_offset + count ELSE host_offset
         IN IdmapLoopSlip(slip, Tail(ids_list), k, passthrough_id + 1, off1,
                          Append(acc1, IdmapLine(k, passthrough_id, passthrough_id, 1)))

IdmapLoop_TrailingOffByOne(ids_list, k, current_container_id, host_offset, acc) ==
    IdmapLoopSlip("trailing", ids_list, k, current_container_id, host_offset, acc)

IdmapLoop_NoOffsetAdvance(ids_list, k, current_container_id, host_offset, acc) ==
    IdmapLoopSlip("offset", ids_list, k, current_container_id, host_offset, acc)

IdmapLoop_EmptyBlocks(ids_list, k, current_container_id, host_offset, acc) ==
    IdmapLoopSlip("empty", ids_list, k, current_container_id, host_offset, acc)

\* the for loop and the trailing range of calculate_idmap_entries
RECURSIVE IdmapLoop(_, _, _, _, _)
IdmapLoop(ids_list, k, current_container_id, host_offset, acc) ==
    IF Len(ids_list) = 0
    THEN IF current_container_id <= 65535
         THEN Append(acc, IdmapLine(k, current_container_id, host_offset,
                                    65536 - current_container_id))
         ELSE acc
    ELSE LET passthrough_id == Head(ids_list)
             gap   == current_container_id < passthrough_id
             count == passthrough_id - current_container_id
             acc1  == IF gap
                      THEN Append(acc, IdmapLine(k, current_container_id, host_offset, count))
                      ELSE acc
             off1  == IF gap THEN host_offset + count ELSE host_offset
         IN IdmapLoop(Tail(ids_list), k, passthrough_id + 1, off1,
                      Append(acc1, IdmapLine(k, passthrough_id, passthrough_id, 1)))

\* calculate_idmap_entries without sorted(set(ids)): the ids as they were given
calculate_idmap_entries_Unsorted(xs, k) ==
    IF Len(xs) = 0 THEN <<>>
    ELSE IdmapLoopSlip("none", xs, k, 0, STANDARD_START, <<>>)

calculate_idmap_entries(xs, k) ==
    LET ids_list == SortedSet(xs)
    IN IF Len(ids_list) = 0 THEN <<>>
       ELSE IdmapLoop(ids_list, k, 0, STANDARD_START, <<>>)

-----------------------------------------------------------------------------
(* parse_idmap_lines *)

\* the fields of one line as parse_idmap_lines reads them, <<>> when skipped
IdmapFields(line, k) ==
    LET s == Strip(line)
    IN IF ~StartsWith(s, LxcIdmap) THEN <<>>
       ELSE LET parts == Split(Replace(s, "=", ":"))
            IN IF Len(parts) < 5 THEN <<>>
               ELSE IF parts[2] # <<k>> THEN <<>>
               ELSE IF ~(IsDigits(parts[3]) /\ IsDigits(parts[4]) /\ IsDigits(parts[5]))
                    THEN <<>>
               ELSE <<ToInt(parts[3]), ToInt(parts[4]), ToInt(parts[5])>>

\* insert t behind every element whose key is <= t's key (stable sort step)
RECURSIVE InsertByCStart(_, _)
InsertByCStart(sorted, t) ==
    IF Len(sorted) = 0 THEN <<t>>
    ELSE IF Head(sorted)[1] <= t[1] THEN <<Head(sorted)>> \o InsertByCStart(Tail(sorted), t)
    ELSE <<t>> \o sorted

RECURSIVE SortByCStart(_, _)
SortByCStart(result, acc) ==
    IF Len(result) = 0 THEN acc
    ELSE SortByCStart(Tail(result), InsertByCStart(acc, Head(result)))

RECURSIVE ParseLoop(_, _, _)
ParseLoop(lines, k, result) ==
    IF Len(lines) = 0 THEN result
    ELSE LET f == IdmapFields(Head(lines), k)
         IN ParseLoop(Tail(lines), k, IF f = <<>> THEN result ELSE Append(result, f))

parse_idmap_lines(lines, k) == SortByCStart(ParseLoop(lines, k, <<>>), <<>>)

-----------------------------------------------------------------------------
(* compute_host_id_for_container_id *)

\* compute_host_id_for_container_id testing c_start < container_id
RECURSIVE compute_host_id_StrictStart(_, _, _)
compute_host_id_StrictStart(cid, idmap_segments, unpriv) ==
    IF Len(idmap_segments) = 0
    THEN IF unpriv THEN STANDARD_START + cid ELSE cid
    ELSE LET c_start == Head(idmap_segments)[1]
             h_start == Head(idmap_segments)[2]
             rng     == Head(idmap_segments)[3]
         IN IF c_start < cid /\ cid < c_start + rng
            THEN h_start + (cid - c_start)
            ELSE compute_host_id_StrictStart(cid, Tail(idmap_segments), unpriv)

\* compute_host_id_for_container_id that ignores the unprivileged flag when no
\* segment holds the id
RECURSIVE compute_host_id_NoShiftFallback(_, _, _)
compute_host_id_NoShiftFallback(cid, idmap_segments, unpriv) ==
    IF Len(idmap_segments) = 0
    THEN cid
    ELSE LET c_start == Head(idmap_segments)[1]
             h_start == Head(idmap_segments)[2]
             rng     == Head(idmap_segments)[3]
         IN IF c_start <= cid /\ cid < c_start + rng
            THEN h_start + (cid - c_start)
            ELSE compute_host_id_NoShiftFallback(cid, Tail(idmap_segments), unpriv)

RECURSIVE compute_host_id_for_container_id(_, _, _)
compute_host_id_for_container_id(cid, idmap_segments, unpriv) ==
    IF Len(idmap_segments) = 0
    THEN IF unpriv THEN STANDARD_START + cid ELSE cid
    ELSE LET c_start == Head(idmap_segments)[1]
             h_start == Head(idmap_segments)[2]
             rng     == Head(idmap_segments)[3]
         IN IF c_start <= cid /\ cid < c_start + rng
            THEN h_start + (cid - c_start)
            ELSE compute_host_id_for_container_id(cid, Tail(idmap_segments), unpriv)

-----------------------------------------------------------------------------
(* Files: a file is a record; text is meaningful only when the file exists *)

\* a local that has not been assigned
NoValue == -1

NoFile == [dir |-> FALSE, exists |-> FALSE, text |-> <<>>]

FileOf(t) == [dir |-> TRUE, exists |-> TRUE, text |-> t]

\* [e + "\n" for e in entries]
WithNewlines(entries) == [i \in 1..Len(entries) |-> Append(entries[i], "\n")]

-----------------------------------------------------------------------------
(* calculate_subid_entries *)

Root == <<"r", "o", "o", "t">>

\* f"root:{start}:{count}"
SubidLine(start, count) == Root \o <<":">> \o Dec(start) \o <<":">> \o Dec(count)

\* calculate_subid_entries without the entry of the standard range
calculate_subid_entries_NoBase(xs) ==
    LET ids_list == SortedSet(xs)
    IN [i \in 1..Len(ids_list) |-> SubidLine(ids_list[i], 1)]

\* calculate_subid_entries without sorted(set(ids)): the ids as they were given
calculate_subid_entries_Unsorted(xs) ==
    IF Len(xs) = 0 THEN <<>>
    ELSE <<SubidLine(STANDARD_START, STANDARD_COUNT)>>
         \o [i \in 1..Len(xs) |-> SubidLine(xs[i], 1)]

calculate_subid_entries(xs) ==
    LET ids_list == SortedSet(xs)
    IN IF Len(ids_list) = 0 THEN <<>>
       ELSE <<SubidLine(STANDARD_START, STANDARD_COUNT)>>
            \o [i \in 1..Len(ids_list) |-> SubidLine(ids_list[i], 1)]

-----------------------------------------------------------------------------
(* update_file *)

\* {line.strip() for line in file_handle if line.strip()}
ExistingLines(f) ==
    IF f.exists
    THEN {Strip(l) : l \in Range(ReadLines(f.text))} \ {<<>>}
    ELSE {}

\* the writes of the append loop: every entry that is not in existing
RECURSIVE AppendMissing(_, _)
AppendMissing(entries, existing) ==
    IF Len(entries) = 0 THEN <<>>
    ELSE (IF Head(entries) \in existing THEN <<>> ELSE Append(Head(entries), "\n"))
         \o AppendMissing(Tail(entries), existing)

update_file(f, entries) ==
    FileOf((IF f.exists THEN f.text ELSE <<>>) \o AppendMissing(entries, ExistingLines(f)))

-----------------------------------------------------------------------------
(* update_lxc_config_kind *)

is_target_idmap_line(line, k) ==
    LET s == Strip(line)
    IN IF ~StartsWith(s, LxcIdmap) THEN FALSE
       ELSE LET parts == Split(Replace(s, "=", ":"))
            IN IF Len(parts) < 3 THEN FALSE
               ELSE parts[2] = <<k>>

\* [line for line in lines if not is_target_idmap_line(line)]
RECURSIVE DropTargetLines(_, _)
DropTargetLines(lines, k) ==
    IF Len(lines) = 0 THEN <<>>
    ELSE (IF is_target_idmap_line(Head(lines), k) THEN <<>> ELSE <<Head(lines)>>)
         \o DropTargetLines(Tail(lines), k)

update_lxc_config_kind(f, k, entries) ==
    LET lines == ReadLines(IF f.exists THEN f.text ELSE <<>>)
    IN FileOf(WriteLines(DropTargetLines(lines, k) \o WithNewlines(entries)))

Kinds == {"u", "g"}

-----------------------------------------------------------------------------
(* parse_ids *)

\* not id_str or id_str.strip() == "" or id_str.strip() == "0"
IdsNotSet(idstr) == Len(idstr) = 0 \/ Strip(idstr) = <<>> \/ Strip(idstr) = <<"0">>

\* [x for x in id_str.split(",") if x.strip()], each stripped
IdPieces(idstr) ==
    LET pieces == SplitOn(idstr, ",")
    IN {Strip(pieces[i]) : i \in DOMAIN pieces} \ {<<>>}

\* int(x.strip()) raises ValueError for a piece that is no decimal number
ParseIdsRaises(idstr) == ~IdsNotSet(idstr) /\ \E x \in IdPieces(idstr) : ~IsDigits(x)

parse_ids(idstr) ==
    IF IdsNotSet(idstr) THEN <<>>
    ELSE SortedList({ToInt(x) : x \in IdPieces(idstr)})

-----------------------------------------------------------------------------
(* detect_unprivileged_from_config *)

UnprivilegedKey == <<"u", "n", "p", "r", "i", "v", "i", "l", "e", "g", "e", "d">>

TruthyValues == {<<"1">>, <<"t", "r", "u", "e">>, <<"y", "e", "s">>}

detect_unprivileged_from_config(lines) ==
    LET hits == {i \in DOMAIN lines : StartsWith(Strip(lines[i]), UnprivilegedKey)}
    IN IF hits = {} THEN TRUE
       ELSE LET s      == Strip(lines[SetMin(hits)])
                colons == {i \in 1..Len(s) : s[i] = ":"}
                last   == IF colons = {} THEN s ELSE SubSeq(s, SetMin(colons) + 1, Len(s))
            IN Lower(Strip(last)) \in TruthyValues

-----------------------------------------------------------------------------
(* setup_idmap *)

NotDefined == <<"N", "O", "T", "_", "D", "E", "F", "I", "N", "E", "D">>

\* how config_path.read_text() answers right after the write: with the text just
\* written, with the text from before the write (the cluster filesystem has not
\* caught up), or with an exception
ReadBacks == {"fresh", "stale", "error"}

\* what a call of setup_idmap leaves behind
Outcome(exc, sub, conf, out, id_list, entries, segs, unpriv, val) ==
    [raised |-> exc, sub_file |-> sub, config_file |-> conf, stdout |-> out,
     id_list |-> id_list, idmap_entries |-> entries, segments |-> segs,
     unprivileged |-> unpriv, mapped_val |-> val]

\* SetupBody that resolves over the mapping lines read back from the config
\* store whenever it could read any, and over the computed entries otherwise
SetupBody_FromStore(k, id_list, vmid, sub, conf, read_back) ==
    LET vm      == IF Len(vmid) = 0 \/ vmid = NotDefined \/ Strip(vmid) = <<>>
                   THEN <<>> ELSE vmid
        numeric == Len(vm) > 0 /\ IsDigits(vm)
        sub1    == update_file(sub, calculate_subid_entries(id_list))
        entries == IF numeric THEN calculate_idmap_entries(id_list, k) ELSE <<>>
        conf1   == IF numeric /\ entries # <<>>
                   THEN update_lxc_config_kind(conf, k, entries) ELSE conf
        read    == IF read_back = "fresh" THEN conf1
                   ELSE IF read_back = "stale" THEN conf
                   ELSE NoFile
        config_lines == IF numeric /\ read.exists THEN ReadLines(read.text) ELSE <<>>
        unpriv  == detect_unprivileged_from_config(config_lines)
        parsed  == IF config_lines # <<>> THEN parse_idmap_lines(config_lines, k)
                   ELSE IF entries # <<>> THEN parse_idmap_lines(WithNewlines(entries), k)
                   ELSE <<>>
        segs    == IF parsed = <<>> /\ unpriv
                   THEN << <<0, STANDARD_START, 65536>> >> ELSE parsed
    IN IF Len(id_list) = 0
       THEN Outcome("IndexError", sub1, conf1, <<>>, id_list, entries, segs, unpriv, NoValue)
       ELSE LET val == compute_host_id_for_container_id(id_list[1], segs, unpriv)
            IN Outcome("", sub1, conf1,
                       <<[id |-> IF k = "u" THEN "mapped_uid" ELSE "mapped_gid",
                          value |-> Dec(val)]>>,
                       id_list, entries, segs, unpriv, val)

\* setup_idmap from the update of the sub file on (lines 233-269)
SetupBody(k, id_list, vmid, sub, conf, read_back) ==
    LET vm      == IF Len(vmid) = 0 \/ vmid = NotDefined \/ Strip(vmid) = <<>>
                   THEN <<>> ELSE vmid
        numeric == Len(vm) > 0 /\ IsDigits(vm)
        sub1    == update_file(sub, calculate_subid_entries(id_list))
        entries == IF numeric THEN calculate_idmap_entries(id_list, k) ELSE <<>>
        conf1   == IF numeric /\ entries # <<>>
                   THEN update_lxc_config_kind(conf, k, entries) ELSE conf
        read    == IF read_back = "fresh" THEN conf1
                   ELSE IF read_back = "stale" THEN conf
                   ELSE NoFile
        config_lines == IF numeric /\ read.exists THEN ReadLines(read.text) ELSE <<>>
        unpriv  == detect_unprivileged_from_config(config_lines)
        parsed  == IF entries # <<>> THEN parse_idmap_lines(WithNewlines(entries), k)
                   ELSE IF config_lines # <<>> THEN parse_idmap_lines(config_lines, k)
                   ELSE <<>>
        segs    == IF parsed = <<>> /\ unpriv
                   THEN << <<0, STANDARD_START, 65536>> >> ELSE parsed
    IN IF Len(id_list) = 0
       THEN Outcome("IndexError", sub1, conf1, <<>>, id_list, entries, segs, unpriv, NoValue)
       ELSE LET val == compute_host_id_for_container_id(id_list[1], segs, unpriv)
            IN Outcome("", sub1, conf1,
                       <<[id |-> IF k = "u" THEN "mapped_uid" ELSE "mapped_gid",
                          value |-> Dec(val)]>>,
                       id_list, entries, segs, unpriv, val)

\* setup_idmap that treats an empty request as zero-length work to perform
setup_idmap_NoSkip(k, idstr, vmid, sub, conf, read_back) ==
    IF k \notin Kinds \/ ParseIdsRaises(idstr)
    THEN Outcome("ValueError", sub, conf, <<>>, <<>>, <<>>, <<>>, TRUE, NoValue)
    ELSE SetupBody(k, parse_ids(idstr), vmid, sub, conf, read_back)

setup_idmap(k, idstr, vmid, sub, conf, read_back) ==
    IF k \notin Kinds \/ ParseIdsRaises(idstr)
    THEN Outcome("ValueError", sub, conf, <<>>, <<>>, <<>>, <<>>, TRUE, NoValue)
    ELSE IF parse_ids(idstr) = <<>>
    THEN Outcome("", sub, conf, <<>>, <<>>, <<>>, <<>>, TRUE, NoValue)
    ELSE SetupBody(k, parse_ids(idstr), vmid, sub, conf, read_back)

-----------------------------------------------------------------------------
(* Inputs of the allocator specification *)

\* requested ids: the documented example, neighbours, and both ends of the space
IdPool == {0, 1, 1000, 1001, 2000, 65534, 65535}

\* container ids that get resolved: the pool and what lies next to it
ProbeIds == {c \in UNION {{i - 1, i, i + 1} : i \in IdPool} \cup {500, 1500, 30000} :
                c >= 0 /\ c < STANDARD_COUNT}

IdLists == UNION {[1..n -> IdPool] : n \in 0..MaxIds}

StoresIdle ==
    /\ sub_entries = <<>>
    /\ sub_file = NoFile
    /\ sub_before = NoFile
    /\ config_file = NoFile
    /\ config_before = NoFile
    /\ calls = 0

AllocIdle ==
    /\ segments = <<>>
    /\ container_id = NoValue
    /\ unprivileged = TRUE
    /\ mapped_val = NoValue

SetupIdle ==
    /\ id_str = <<>>
    /\ vm_id = <<>>
    /\ stdout = <<>>
    /\ raised = ""

\* no merge call made yet
NoLatest == [k \in Kinds |-> <<>>]

PoolIdle ==
    /\ scan = ""
    /\ vmids = <<>>
    /\ pct_status = <<>>
    /\ max_workers = 0
    /\ futures = <<>>
    /\ results = <<>>
    /\ reordered = FALSE
    /\ statuses = <<>>
    /\ items = <<>>

NotesIdle ==
    /\ writer = ""
    /\ template = <<>>
    /\ notes_with_icon = <<>>
    /\ notes_without_icon = <<>>
    /\ description = <<>>

ParseIdle ==
    /\ conf_text = <<>>
    /\ config = <<>>
    /\ addon_ids = <<>>
    /\ first_desc = <<>>
    /\ current_desc = <<>>

RaceIdle ==
    /\ serialized = TRUE
    /\ proc = <<>>

OthersIdle ==
    /\ latest = NoLatest
    /\ PoolIdle
    /\ NotesIdle
    /\ ParseIdle
    /\ RaceIdle

AllocInit ==
    /\ pc = "start"
    /\ kind \in Kinds
    /\ ids \in IdLists
    /\ idmap_entries = <<>>
    /\ AllocIdle
    /\ StoresIdle
    /\ SetupIdle
    /\ OthersIdle

\* idmap_entries = calculate_idmap_entries(id_list, kind)
CalculateIdmapEntries ==
    /\ pc = "start"
    /\ idmap_entries' = calculate_idmap_entries(ids, kind)
    /\ pc' = "allocated"
    /\ UNCHANGED <<kind, ids, segments, container_id, unprivileged, mapped_val, nonAllocVars>>

\* segments = parse_idmap_lines([e + "\n" for e in idmap_entries], kind)
ParseIdmapLines ==
    /\ pc = "allocated"
    /\ segments' = parse_idmap_lines([i \in 1..Len(idmap_entries) |->
                                         Append(idmap_entries[i], "\n")], kind)
    /\ pc' = "parsed"
    /\ UNCHANGED <<kind, ids, idmap_entries, container_id, unprivileged, mapped_val, nonAllocVars>>

\* mapped_val = compute_host_id_for_container_id(c, segments, unprivileged)
ComputeHostId ==
    /\ pc = "parsed"
    /\ \E c \in ProbeIds, u \in BOOLEAN :
          /\ container_id' = c
          /\ unprivileged' = u
          /\ mapped_val' = compute_host_id_for_container_id(c, segments, u)
    /\ pc' = "resolved"
    /\ UNCHANGED <<kind, ids, idmap_entries, segments, nonAllocVars>>

AllocNext == CalculateIdmapEntries \/ ParseIdmapLines \/ ComputeHostId

SpecAlloc == AllocInit /\ [][AllocNext]_vars

-----------------------------------------------------------------------------
(* Inputs of the store specifications *)

Unprivileged1 == <<"u", "n", "p", "r", "i", "v", "i", "l", "e", "g", "e", "d", ":", " ", "1">>

\* f"lxc.idmap{sep}{kind} {c} {h} {n}" for a key/value separator sep
IdmapLineSep(sep, k, c, h, n) ==
    LxcIdmap \o sep \o <<k, " ">> \o Dec(c) \o <<" ">> \o Dec(h) \o <<" ">> \o Dec(n)

\* lines found in a container config: a directive, and whole-space mappings of
\* both kinds written "key: value" (Proxmox) and "key = value" (LXC)
ConfigLinePool ==
    { Unprivileged1,
      IdmapLineSep(<<":", " ">>, "u", 0, STANDARD_START, STANDARD_COUNT),
      IdmapLineSep(<<":", " ">>, "g", 0, STANDARD_START, STANDARD_COUNT),
      IdmapLineSep(<<" ", "=", " ">>, "u", 0, STANDARD_START, STANDARD_COUNT),
      IdmapLineSep(<<" ", "=", " ">>, "g", 0, STANDARD_START, STANDARD_COUNT) }

User == <<"u", "s", "e", "r">>

\* lines found in /etc/subuid or /etc/subgid
SubLinePool ==
    { SubidLine(STANDARD_START, STANDARD_COUNT),
      SubidLine(1000, 1),
      User \o <<":">> \o Dec(165536) \o <<":">> \o Dec(STANDARD_COUNT) }

\* the lines joined by "\n"; the last line ends with "\n" only if final_newline
RECURSIVE JoinLines(_, _)
JoinLines(lines, final_newline) ==
    IF Len(lines) = 0 THEN <<>>
    ELSE IF Len(lines) = 1 THEN (IF final_newline THEN Append(lines[1], "\n") ELSE lines[1])
    ELSE Append(Head(lines), "\n") \o JoinLines(Tail(lines), final_newline)

\* a missing file, or up to n lines of the pool with or without a final newline
StoresOf(pool, n) ==
    {NoFile} \cup
    {FileOf(JoinLines(ls, nl)) : ls \in UNION {[1..m -> pool] : m \in 0..n}, nl \in BOOLEAN}

StorePool == {1000, 65535}

StoreIdLists == UNION {[1..n -> StorePool] : n \in 0..MaxStoreIds}

-----------------------------------------------------------------------------
(* update_lxc_config_kind called repeatedly with the same kind and lines *)

MergeInit ==
    /\ pc = "call"
    /\ kind \in Kinds
    /\ ids \in StoreIdLists
    /\ idmap_entries = calculate_idmap_entries(ids, kind)
    /\ AllocIdle
    /\ sub_entries = <<>>
    /\ sub_file = NoFile
    /\ sub_before = NoFile
    /\ config_file \in StoresOf(ConfigLinePool, MaxStoreLines)
    /\ config_before = config_file
    /\ calls = 0
    /\ SetupIdle
    /\ OthersIdle

\* update_lxc_config_kind(config_path, kind, idmap_entries)
UpdateLxcConfigKind ==
    /\ pc = "call"
    /\ calls < MaxCalls
    /\ config_before' = config_file
    /\ config_file' = update_lxc_config_kind(config_file, kind, idmap_entries)
    /\ calls' = calls + 1
    /\ UNCHANGED <<pc, allocVars, sub_entries, sub_file, sub_before, setupVars, otherVars>>

MergeNext == UpdateLxcConfigKind

SpecMerge == MergeInit /\ [][MergeNext]_vars

-----------------------------------------------------------------------------
(* update_file called repeatedly with the same entries *)

AppendInit ==
    /\ pc = "call"
    /\ kind \in Kinds
    /\ ids \in StoreIdLists
    /\ idmap_entries = <<>>
    /\ AllocIdle
    /\ sub_entries = calculate_subid_entries(ids)
    /\ sub_file \in StoresOf(SubLinePool, MaxStoreLines)
    /\ sub_before = sub_file
    /\ config_file = NoFile
    /\ config_before = NoFile
    /\ calls = 0
    /\ SetupIdle
    /\ OthersIdle

\* update_file(sub_file_path, calculate_subid_entries(id_list))
UpdateFile ==
    /\ pc = "call"
    /\ calls < MaxCalls
    /\ sub_before' = sub_file
    /\ sub_file' = update_file(sub_file, sub_entries)
    /\ calls' = calls + 1
    /\ UNCHANGED <<pc, allocVars, sub_entries, config_file, config_before, setupVars, otherVars>>

AppendNext == UpdateFile

SpecAppend == AppendInit /\ [][AppendNext]_vars

-----------------------------------------------------------------------------
(* setup_idmap called once *)

Unprivileged0 == <<"u", "n", "p", "r", "i", "v", "i", "l", "e", "g", "e", "d", ":", " ", "0">>

\* id strings: not set ("", blank, "0"), one id, several ids, a list holding 0,
\* an unsorted list with blanks, and one that is no number
IdStrings ==
    { <<>>, <<" ">>, <<"0">>,
      Dec(1000),
      Dec(1000) \o <<",">> \o Dec(2000),
      <<"0", ",">> \o Dec(1000),
      Dec(2000) \o <<",", " ">> \o Dec(1000),
      <<"x">> }

\* vm ids: absent, the NOT_DEFINED placeholder, numeric, not numeric
VmIds == { <<>>, NotDefined, Dec(101), <<"c", "t">> }

SetupConfigLinePool ==
    { Unprivileged0,
      IdmapLineSep(<<":", " ">>, "u", 0, STANDARD_START, STANDARD_COUNT),
      IdmapLineSep(<<":", " ">>, "g", 0, STANDARD_START, STANDARD_COUNT) }

SetupSubLinePool == { SubidLine(STANDARD_START, STANDARD_COUNT), SubidLine(1000, 1) }

SetupInit ==
    /\ pc = "call"
    /\ kind \in Kinds
    /\ id_str \in IdStrings
    /\ vm_id \in VmIds
    /\ ids = <<>>
    /\ idmap_entries = <<>>
    /\ AllocIdle
    /\ sub_entries = <<>>
    /\ sub_file \in StoresOf(SetupSubLinePool, MaxSetupLines)
    /\ sub_before = sub_file
    /\ config_file \in StoresOf(SetupConfigLinePool, MaxSetupLines)
    /\ config_before = config_file
    /\ calls = 0
    /\ stdout = <<>>
    /\ raised = ""
    /\ OthersIdle

\* setup_idmap(kind, id_str, vm_id, sub_file_path, config_dir, log_prefix)
SetupIdmap ==
    /\ pc = "call"
    /\ \E read_back \in ReadBacks :
          \E r \in {setup_idmap(kind, id_str, vm_id, sub_file, config_file, read_back)} :
             /\ raised' = r.raised
             /\ sub_file' = r.sub_file
             /\ config_file' = r.config_file
             /\ stdout' = r.stdout
             /\ ids' = r.id_list
             /\ idmap_entries' = r.idmap_entries
             /\ segments' = r.segments
             /\ unprivileged' = r.unprivileged
             /\ mapped_val' = r.mapped_val
    /\ sub_before' = sub_file
    /\ config_before' = config_file
    /\ calls' = calls + 1
    /\ pc' = "done"
    /\ UNCHANGED <<kind, container_id, sub_entries, id_str, vm_id, otherVars>>

SetupNext == SetupIdmap

SpecSetup == SetupInit /\ [][SetupNext]_vars

-----------------------------------------------------------------------------
(* Properties of the allocator (checked under SpecAlloc) *)

\* the requested id set S
S == Range(ids)

\* the emitted entries, in emission order, read as <<container_start, host_start, range>>
Spans == [i \in 1..Len(idmap_entries) |-> IdmapFields(idmap_entries[i], kind)]

RECURSIVE SumRanges(_)
SumRanges(sp) == IF Len(sp) = 0 THEN 0 ELSE Head(sp)[3] + SumRanges(Tail(sp))

InSpan(c, t) == t[1] <= c /\ c < t[1] + t[3]

IsPassthroughSpan(t) == t[1] \in S /\ t[2] = t[1] /\ t[3] = 1

IsShiftSpan(t) == ~IsPassthroughSpan(t)

Allocated == pc = "allocated" /\ ids # <<>>

\* sp partitions [0, 65536) on the container side
PartitionsIdSpace(sp) ==
    /\ \A i \in DOMAIN sp :
          /\ sp[i] # <<>>
          /\ sp[i][3] >= 1
          /\ sp[i][1] >= 0
          /\ sp[i][1] + sp[i][3] - 1 <= 65535
    /\ \A i, j \in DOMAIN sp :
          i < j => \/ sp[i][1] + sp[i][3] <= sp[j][1]
                   \/ sp[j][1] + sp[j][3] <= sp[i][1]
    /\ SumRanges(sp) = 65536
    /\ \A c \in ProbeIds : Cardinality({i \in DOMAIN sp : InSpan(c, sp[i])}) = 1

\* C1: for every non-empty S within [0, 65536) and every kind, the container-side
\* spans of the emitted entries partition [0, 65536): every line parses to a span,
\* no span is empty, none reaches past 65535, no two overlap, together they hold
\* 65536 ids, and every probed container id lies in exactly one span.
C1_Partition == Allocated => PartitionsIdSpace(Spans)

C1_Witness ==
    /\ pc = "allocated"
    /\ S = {0, 1000, 65535}
    /\ Len(idmap_entries) = 5

\* C2: every requested id resolves to itself over the segments parsed from the
\* allocator's entries, whatever the unprivileged flag.
C2_PassthroughIdentity ==
    (pc = "resolved" /\ ids # <<>> /\ container_id \in S) => mapped_val = container_id

C2_Witness ==
    /\ pc = "resolved"
    /\ container_id = 1000
    /\ container_id \in S
    /\ ~unprivileged
    /\ mapped_val = 1000

ShiftSegments == SelectSeq(segments, IsShiftSpan)

Line_u_0_100000_1000 ==
    <<"l", "x", "c", ".", "i", "d", "m", "a", "p", ":", " ", "u", " ",
      "0", " ", "1", "0", "0", "0", "0", "0", " ", "1", "0", "0", "0">>

Line_u_1000_1000_1 ==
    <<"l", "x", "c", ".", "i", "d", "m", "a", "p", ":", " ", "u", " ",
      "1", "0", "0", "0", " ", "1", "0", "0", "0", " ", "1">>

Line_u_1001_101000_999 ==
    <<"l", "x", "c", ".", "i", "d", "m", "a", "p", ":", " ", "u", " ",
      "1", "0", "0", "1", " ", "1", "0", "1", "0", "0", "0", " ", "9", "9", "9">>

Line_u_2000_2000_1 ==
    <<"l", "x", "c", ".", "i", "d", "m", "a", "p", ":", " ", "u", " ",
      "2", "0", "0", "0", " ", "2", "0", "0", "0", " ", "1">>

Line_u_2001_102000_63535 ==
    <<"l", "x", "c", ".", "i", "d", "m", "a", "p", ":", " ", "u", " ",
      "2", "0", "0", "1", " ", "1", "0", "2", "0", "0", "0", " ", "6", "3", "5", "3", "5">>

Line_u_2001_101999_63535 ==
    <<"l", "x", "c", ".", "i", "d", "m", "a", "p", ":", " ", "u", " ",
      "2", "0", "0", "1", " ", "1", "0", "1", "9", "9", "9", " ", "6", "3", "5", "3", "5">>

PassthroughStarts(sp) ==
    LET p == SelectSeq(sp, IsPassthroughSpan) IN [i \in 1..Len(p) |-> p[i][1]]

\* the order and alternation of the emitted entries, without the last entry's shape
EmissionPattern(sp) ==
    /\ \A i \in DOMAIN sp : sp[i] # <<>>
    /\ \A i \in 1..(Len(sp) - 1) : sp[i][1] < sp[i + 1][1]
    /\ PassthroughStarts(sp) = SortedList(S)
    /\ \A i \in DOMAIN sp : IsShiftSpan(sp[i]) => sp[i][3] >= 1
    /\ \A i \in 1..(Len(sp) - 1) : ~(IsShiftSpan(sp[i]) /\ IsShiftSpan(sp[i + 1]))
    /\ \A i \in 2..Len(sp) :
          (IsPassthroughSpan(sp[i]) /\ IsPassthroughSpan(sp[i - 1]))
              => sp[i][1] = sp[i - 1][1] + 1
    /\ IsPassthroughSpan(sp[1]) => sp[1][1] = 0

EndsWithShiftBlock(sp) == IsShiftSpan(sp[Len(sp)])

\* C5 as stated: entries ascend by container_start in the pattern (shift block if
\* non-empty, passthrough singleton) per requested id, and the list ends with a
\* trailing shift block after the last passthrough id, also when S holds 65535.
C5_Original ==
    Allocated => (EmissionPattern(Spans) /\ EndsWithShiftBlock(Spans))

\* C5 amended: the same pattern, and the list ends with a trailing shift block
\* exactly when the largest requested id is below 65535; when 65535 is requested
\* the last entry is its passthrough singleton.
C5_EmissionOrder ==
    Allocated =>
        /\ EmissionPattern(Spans)
        /\ EndsWithShiftBlock(Spans) <=> (65535 \notin S)

C5_Witness ==
    /\ pc = "allocated"
    /\ S = {1000, 1001, 65535}
    /\ Len(idmap_entries) = 5
    /\ IsPassthroughSpan(Spans[Len(Spans)])

-----------------------------------------------------------------------------
(* Properties of update_lxc_config_kind (checked under SpecMerge) *)

TextOf(f) == IF f.exists THEN f.text ELSE <<>>

\* a line without its line terminator
LineContent(l) == IF Len(l) > 0 /\ l[Len(l)] = "\n" THEN SubSeq(l, 1, Len(l) - 1) ELSE l

\* the lines of a store, each without its terminator
ContentLines(f) ==
    LET ls == ReadLines(TextOf(f)) IN [i \in 1..Len(ls) |-> LineContent(ls[i])]

\* a mapping line of kind k in the store format: key "lxc.idmap", a ":" or "="
\* key/value separator, and a value whose first field is k
IsMappingLineOfKind(l, k) ==
    LET s    == Strip(l)
        seps == {i \in 1..Len(s) : s[i] \in {":", "="}}
    IN /\ seps # {}
       /\ LET at    == SetMin(seps)
              key   == Strip(SubSeq(s, 1, at - 1))
              value == Split(SubSeq(s, at + 1, Len(s)))
          IN key = LxcIdmap /\ Len(value) > 0 /\ value[1] = <<k>>

RECURSIVE IsSubsequence(_, _)
IsSubsequence(a, b) ==
    IF Len(a) = 0 THEN TRUE
    ELSE IF Len(b) = 0 THEN FALSE
    ELSE IF Head(a) = Head(b) THEN IsSubsequence(Tail(a), Tail(b))
    ELSE IsSubsequence(a, Tail(b))

RECURSIVE LinesNotOfKind(_, _)
LinesNotOfKind(lines, k) ==
    IF Len(lines) = 0 THEN <<>>
    ELSE (IF IsMappingLineOfKind(Head(lines), k) THEN <<>> ELSE <<Head(lines)>>)
         \o LinesNotOfKind(Tail(lines), k)

\* C7: update_lxc_config_kind is idempotent: a second call with the same kind and
\* new lines leaves the store text as the first call left it, also for a store
\* whose last line has no trailing newline.
C7_MergeIdempotent ==
    calls = 2 => config_file = config_before

\* C8: update_lxc_config_kind keeps every line that is not a mapping line of the
\* kind, verbatim and in its original order, and places the new lines after them,
\* each as a line of its own at the end of the store.
C8_KeepsOthersAppendsNew ==
    calls >= 1 =>
        LET after == ContentLines(config_file)
            n     == Len(idmap_entries)
        IN /\ Len(after) >= n
           /\ SubSeq(after, Len(after) - n + 1, Len(after)) = idmap_entries
           /\ IsSubsequence(LinesNotOfKind(ContentLines(config_before), kind),
                            SubSeq(after, 1, Len(after) - n))

\* C9: after update_lxc_config_kind every mapping line of the kind in the store
\* is one of the new lines: the old ones are dropped, written with ":" or "=".
C9_OldKindLinesDropped ==
    calls >= 1 =>
        \A l \in Range(ContentLines(config_file)) :
            IsMappingLineOfKind(l, kind) => l \in Range(idmap_entries)

-----------------------------------------------------------------------------
(* Properties of update_file (checked under SpecAppend) *)

\* number of lines of store f that read e
Occurrences(f, e) ==
    LET ls == ContentLines(f) IN Cardinality({i \in DOMAIN ls : ls[i] = e})

\* C10: update_file is idempotent: after one call every entry is a line of the
\* store, a second call with the same entries appends nothing, and no entry
\* occurs twice that did not already, also for a store whose last line has no
\* trailing newline.
C10_AppendIdempotent ==
    /\ calls >= 1 =>
          \A e \in Range(sub_entries) :
              /\ Occurrences(sub_file, e) >= 1
              /\ Occurrences(sub_file, e) > 1 =>
                    Occurrences(sub_file, e) = Occurrences(sub_before, e)
    /\ calls = 2 => sub_file = sub_before

-----------------------------------------------------------------------------
(* Properties of setup_idmap (checked under SpecSetup) *)

\* the id string is empty, blank or "0"
EmptyRequest == Strip(id_str) \in {<<>>, <<"0">>}

\* C6: for an empty request (id string empty, blank or "0") both
\* calculate_idmap_entries and calculate_subid_entries return the empty list and
\* setup_idmap changes nothing: the authorization store and the config store are
\* neither created nor modified and no mapped id is printed.
C6_EmptyRequestNoMutation ==
    (pc = "done" /\ EmptyRequest) =>
        /\ calculate_idmap_entries(parse_ids(id_str), kind) = <<>>
        /\ calculate_subid_entries(parse_ids(id_str)) = <<>>
        /\ sub_file = sub_before
        /\ config_file = config_before
        /\ stdout = <<>>
        /\ raised = ""

C6_Witness ==
    /\ pc = "done"
    /\ id_str = <<"0">>
    /\ vm_id = Dec(101)
    /\ ~sub_before.exists
    /\ ~sub_file.exists
    /\ ~config_file.exists
    /\ stdout = <<>>

-----------------------------------------------------------------------------
(* update_file and setup_idmap called in any order on one authorization store *)

StoreInit ==
    /\ pc = "call"
    /\ kind \in Kinds
    /\ ids = <<>>
    /\ idmap_entries = <<>>
    /\ AllocIdle
    /\ sub_entries = <<>>
    /\ sub_file \in StoresOf(SubLinePool, MaxStoreLines)
    /\ sub_before = sub_file
    /\ config_file = NoFile
    /\ config_before = NoFile
    /\ calls = 0
    /\ SetupIdle
    /\ OthersIdle

\* update_file(sub_file_path, calculate_subid_entries(id_list)) for any id_list
UpdateFileAnyIds ==
    /\ pc = "call"
    /\ calls < MaxCalls
    /\ \E id_list \in StoreIdLists :
          /\ ids' = id_list
          /\ sub_entries' = calculate_subid_entries(id_list)
          /\ sub_file' = update_file(sub_file, calculate_subid_entries(id_list))
    /\ sub_before' = sub_file
    /\ calls' = calls + 1
    /\ UNCHANGED <<pc, kind, idmap_entries, segments, container_id, unprivileged,
                   mapped_val, config_file, config_before, setupVars, otherVars>>

\* setup_idmap(kind, id_str, vm_id, sub_file_path, config_dir, log_prefix) for
\* any id_str and vm_id
SetupIdmapAnyIds ==
    /\ pc = "call"
    /\ calls < MaxCalls
    /\ \E idstr \in IdStrings, vmid \in VmIds, read_back \in ReadBacks :
          \E r \in {setup_idmap(kind, idstr, vmid, sub_file, config_file, read_back)} :
             /\ id_str' = idstr
             /\ vm_id' = vmid
             /\ raised' = r.raised
             /\ sub_file' = r.sub_file
             /\ config_file' = r.config_file
             /\ stdout' = r.stdout
             /\ ids' = r.id_list
             /\ idmap_entries' = r.idmap_entries
             /\ segments' = r.segments
             /\ unprivileged' = r.unprivileged
             /\ mapped_val' = r.mapped_val
             /\ sub_entries' = calculate_subid_entries(r.id_list)
    /\ sub_before' = sub_file
    /\ config_before' = config_file
    /\ calls' = calls + 1
    /\ UNCHANGED <<pc, kind, container_id, otherVars>>

StoreNext == UpdateFileAnyIds \/ SetupIdmapAnyIds

SpecStore == StoreInit /\ [][StoreNext]_vars

-----------------------------------------------------------------------------
(* Properties of the authorization store (checked under SpecStore) *)

\* sequence a is a prefix of sequence b
IsPrefix(a, b) == Len(a) <= Len(b) /\ SubSeq(b, 1, Len(a)) = a

\* C11: the authorization store is append-only: the text before each call of
\* update_file or setup_idmap is a prefix of the text after it, and the lines
\* before the call are, unchanged and in the same order, the first lines after
\* it (no line removed, reordered or rewritten).
C11_AppendOnly ==
    calls >= 1 =>
        /\ IsPrefix(TextOf(sub_before), TextOf(sub_file))
        /\ IsPrefix(ContentLines(sub_before), ContentLines(sub_file))

-----------------------------------------------------------------------------
(* Both calculators applied to one id list, as setup_idmap applies them *)

EntriesInit ==
    /\ pc = "start"
    /\ kind \in Kinds
    /\ ids \in IdLists
    /\ idmap_entries = <<>>
    /\ AllocIdle
    /\ StoresIdle
    /\ SetupIdle
    /\ OthersIdle

\* calculate_subid_entries(id_list) and calculate_idmap_entries(id_list, kind)
CalculateEntries ==
    /\ pc = "start"
    /\ sub_entries' = calculate_subid_entries(ids)
    /\ idmap_entries' = calculate_idmap_entries(ids, kind)
    /\ pc' = "calculated"
    /\ UNCHANGED <<kind, ids, segments, container_id, unprivileged, mapped_val,
                   sub_file, sub_before, config_file, config_before, calls,
                   setupVars, otherVars>>

EntriesNext == CalculateEntries

SpecEntries == EntriesInit /\ [][EntriesNext]_vars

-----------------------------------------------------------------------------
(* Properties of the calculators (checked under SpecEntries) *)

Calculated == pc = "calculated"

Line_root_100000_65536 ==
    <<"r", "o", "o", "t", ":", "1", "0", "0", "0", "0", "0", ":", "6", "5", "5", "3", "6">>

\* the owner:start:count fields of the entries behind the first one
SingletonFields == [i \in 1..(Len(sub_entries) - 1) |-> SplitOn(sub_entries[i + 1], ":")]

\* the text setup_idmap of kind k leaves in a store that did not exist, for the
\* id list at hand and no vm_id
SubStoreWrittenBy(k) == SetupBody(k, SortedSet(ids), <<>>, NoFile, NoFile, "fresh").sub_file.text

\* C12: for every non-empty id set calculate_subid_entries returns the base entry
\* root:100000:65536 followed by one entry root:<id>:1 per distinct requested id
\* in ascending order: 1 + |S| entries, no two equal, and the same entries
\* whichever kind asks for them.
C12_SubidEntries ==
    (Calculated /\ ids # <<>>) =>
        /\ Len(sub_entries) = 1 + Cardinality(S)
        /\ sub_entries[1] = Line_root_100000_65536
        /\ \A i \in DOMAIN SingletonFields :
              /\ Len(SingletonFields[i]) = 3
              /\ SingletonFields[i][1] = <<"r", "o", "o", "t">>
              /\ IsDigits(SingletonFields[i][2])
              /\ SingletonFields[i][3] = <<"1">>
        /\ {ToInt(SingletonFields[i][2]) : i \in DOMAIN SingletonFields} = S
        /\ \A i \in 1..(Len(SingletonFields) - 1) :
              ToInt(SingletonFields[i][2]) < ToInt(SingletonFields[i + 1][2])
        /\ \A i, j \in DOMAIN sub_entries : i < j => sub_entries[i] # sub_entries[j]
        /\ \A k \in Kinds : SubStoreWrittenBy(k) = WriteLines(WithNewlines(sub_entries))

C12_Witness ==
    /\ Calculated
    /\ ids = <<2000, 1000, 2000>>
    /\ Len(sub_entries) = 3
    /\ kind = "g"

\* C13: the calculators depend on the id set only: every id list holding the
\* same values as the one at hand, in any order and with any repetition, gives
\* the same mapping entries for the kind and the same authorization entries.
C13_Deterministic ==
    Calculated =>
        \A other \in IdLists :
            Range(other) = S =>
                /\ calculate_idmap_entries(other, kind) = idmap_entries
                /\ calculate_subid_entries(other) = sub_entries

C13_Witness ==
    /\ Calculated
    /\ ids = <<2000, 1000, 1000>>
    /\ Len(idmap_entries) = 5
    /\ Len(sub_entries) = 3

-----------------------------------------------------------------------------
(* The four functions that take a kind, called with any kind *)

\* what a call leaves behind: the exception it ended with ("" for none) and the
\* value it returned or the file it wrote
Returned(v) == [raised |-> "", value |-> v]

Raised(exc, v) == [raised |-> exc, value |-> v]

\* update_lxc_config_kind that creates the directory and the file before it
\* looks at the kind
Call_update_lxc_config_kind_LateCheck(f, k, entries) ==
    IF k \notin Kinds THEN Raised("ValueError", IF f.exists THEN f ELSE FileOf(<<>>))
    ELSE Returned(update_lxc_config_kind(f, k, entries))

\* calculate_idmap_entries(ids, kind) with its kind test (lines 70-71)
Call_calculate_idmap_entries(xs, k) ==
    IF k \notin Kinds THEN Raised("ValueError", <<>>)
    ELSE Returned(calculate_idmap_entries(xs, k))

\* update_lxc_config_kind(config_path, kind, idmap_entries) with its kind test
\* (lines 122-123), which comes before mkdir and write_text
Call_update_lxc_config_kind(f, k, entries) ==
    IF k \notin Kinds THEN Raised("ValueError", f)
    ELSE Returned(update_lxc_config_kind(f, k, entries))

\* parse_idmap_lines(lines, kind) with its kind test (lines 157-158)
Call_parse_idmap_lines(lines, k) ==
    IF k \notin Kinds THEN Raised("ValueError", <<>>)
    ELSE Returned(parse_idmap_lines(lines, k))

\* kinds a caller may hand over: the two valid ones, another letter, the upper
\* case of a valid one, and the empty string
AnyKinds == Kinds \cup {"x", "U", ""}

KindIdStrings == { <<>>, Dec(1000), <<"x">> }

KindVmIds == { <<>>, Dec(101) }

KindInit ==
    /\ pc = "call"
    /\ kind \in AnyKinds
    /\ ids = <<>>
    /\ idmap_entries = <<>>
    /\ AllocIdle
    /\ sub_entries = <<>>
    /\ sub_file \in StoresOf(SetupSubLinePool, MaxSetupLines)
    /\ sub_before = sub_file
    /\ config_file \in StoresOf(SetupConfigLinePool, MaxSetupLines)
    /\ config_before = config_file
    /\ calls = 0
    /\ SetupIdle
    /\ OthersIdle

\* calculate_idmap_entries(ids, kind)
KindCalculateIdmapEntries ==
    /\ pc = "call"
    /\ \E id_list \in StoreIdLists :
          \E r \in {Call_calculate_idmap_entries(id_list, kind)} :
             /\ ids' = id_list
             /\ idmap_entries' = r.value
             /\ raised' = r.raised
    /\ pc' = "calculate_idmap_entries"
    /\ calls' = calls + 1
    /\ UNCHANGED <<kind, segments, container_id, unprivileged, mapped_val, sub_entries,
                   sub_file, sub_before, config_file, config_before, id_str, vm_id,
                   stdout, otherVars>>

\* update_lxc_config_kind(config_path, kind, idmap_entries), the new lines being
\* mapping entries of a valid kind
KindUpdateLxcConfigKind ==
    /\ pc = "call"
    /\ \E id_list \in StoreIdLists, k \in Kinds :
          \E r \in {Call_update_lxc_config_kind(config_file, kind,
                                                calculate_idmap_entries(id_list, k))} :
             /\ ids' = id_list
             /\ idmap_entries' = calculate_idmap_entries(id_list, k)
             /\ config_file' = r.value
             /\ raised' = r.raised
    /\ pc' = "update_lxc_config_kind"
    /\ calls' = calls + 1
    /\ UNCHANGED <<kind, segments, container_id, unprivileged, mapped_val, sub_entries,
                   sub_file, sub_before, config_before, id_str, vm_id, stdout, otherVars>>

\* parse_idmap_lines(lines, kind) over the lines of the config store
KindParseIdmapLines ==
    /\ pc = "call"
    /\ \E r \in {Call_parse_idmap_lines(ReadLines(TextOf(config_file)), kind)} :
          /\ segments' = r.value
          /\ raised' = r.raised
    /\ pc' = "parse_idmap_lines"
    /\ calls' = calls + 1
    /\ UNCHANGED <<kind, ids, idmap_entries, container_id, unprivileged, mapped_val,
                   sub_entries, sub_file, sub_before, config_file, config_before,
                   id_str, vm_id, stdout, otherVars>>

\* setup_idmap(kind, id_str, vm_id, sub_file_path, config_dir, log_prefix)
KindSetupIdmap ==
    /\ pc = "call"
    /\ \E idstr \in KindIdStrings, vmid \in KindVmIds, read_back \in ReadBacks :
          \E r \in {setup_idmap(kind, idstr, vmid, sub_file, config_file, read_back)} :
             /\ id_str' = idstr
             /\ vm_id' = vmid
             /\ raised' = r.raised
             /\ sub_file' = r.sub_file
             /\ config_file' = r.config_file
             /\ stdout' = r.stdout
             /\ ids' = r.id_list
             /\ idmap_entries' = r.idmap_entries
             /\ segments' = r.segments
             /\ unprivileged' = r.unprivileged
             /\ mapped_val' = r.mapped_val
    /\ pc' = "setup_idmap"
    /\ calls' = calls + 1
    /\ UNCHANGED <<kind, container_id, sub_entries, sub_before, config_before, otherVars>>

KindNext ==
    \/ KindCalculateIdmapEntries
    \/ KindUpdateLxcConfigKind
    \/ KindParseIdmapLines
    \/ KindSetupIdmap

SpecKind == KindInit /\ [][KindNext]_vars

-----------------------------------------------------------------------------
(* Properties of the kind argument (checked under SpecKind) *)

KindFunctions ==
    {"calculate_idmap_entries", "update_lxc_config_kind", "parse_idmap_lines", "setup_idmap"}

\* C14: called with a kind other than "u" and "g", each of calculate_idmap_entries,
\* update_lxc_config_kind, parse_idmap_lines and setup_idmap ends with a
\* ValueError and has done nothing: it returned and printed nothing, and both
\* stores are as they were, a missing directory or file still missing.
C14_InvalidKindFails ==
    (pc \in KindFunctions /\ kind \notin {"u", "g"}) =>
        /\ raised = "ValueError"
        /\ sub_file = sub_before
        /\ config_file = config_before
        /\ (pc # "update_lxc_config_kind" => idmap_entries = <<>>)
        /\ segments = <<>>
        /\ stdout = <<>>
        /\ mapped_val = NoValue

C14_Witness ==
    /\ pc = "update_lxc_config_kind"
    /\ kind = "U"
    /\ raised = "ValueError"
    /\ ~config_before.dir
    /\ ~config_file.dir
    /\ ~config_file.exists
    /\ Len(idmap_entries) = 3

-----------------------------------------------------------------------------
(* compute_host_id_for_container_id over segments parsed from config lines *)

\* most mapping lines of the parsed config
MaxSegLines == 3

\* mapping lines of kind k found in a config: a shift block, a passthrough
\* singleton, a block overlapping both, and a block further up; the ids between
\* 1500 and 2000 are in none of them
SegmentLinePool(k) ==
    { IdmapLine(k, 0, STANDARD_START, 1000),
      IdmapLine(k, 1000, 1000, 1),
      IdmapLine(k, 500, 200500, 1000),
      IdmapLine(k, 2000, 102000, 63536) }

SegmentLineLists(k) == UNION {[1..n -> SegmentLinePool(k)] : n \in 0..MaxSegLines}

ResolveInit ==
    /\ pc = "parsed"
    /\ kind \in Kinds
    /\ ids = <<>>
    /\ idmap_entries = <<>>
    /\ segments \in {parse_idmap_lines(WithNewlines(ls), kind) : ls \in SegmentLineLists(kind)}
    /\ container_id = NoValue
    /\ unprivileged = TRUE
    /\ mapped_val = NoValue
    /\ StoresIdle
    /\ SetupIdle
    /\ OthersIdle

ResolveNext == ComputeHostId

SpecResolve == ResolveInit /\ [][ResolveNext]_vars

-----------------------------------------------------------------------------
(* Properties of the resolver (checked under SpecResolve) *)

\* positions of the segments that hold the container id
HoldingSegments == {i \in DOMAIN segments : InSpan(container_id, segments[i])}

\* C15: the resolver returns host_start + (containerId - container_start) of the
\* first segment that holds containerId; when no segment holds it, it returns
\* 100000 + containerId for an unprivileged container and containerId for a
\* privileged one.
C15_ResolveOrFallback ==
    pc = "resolved" =>
        IF HoldingSegments # {}
        THEN LET first == segments[SetMin(HoldingSegments)]
             IN mapped_val = first[2] + (container_id - first[1])
        ELSE mapped_val = (IF unprivileged THEN 100000 + container_id ELSE container_id)

C15_Witness ==
    /\ pc = "resolved"
    /\ Len(segments) = 3
    /\ HoldingSegments = {}
    /\ container_id = 1500
    /\ unprivileged
    /\ mapped_val = 101500

-----------------------------------------------------------------------------
(* Properties of the reported host id (checked under SpecSetup) *)

\* the vm_id is numeric and the id string yields at least one id
MapsIntoConfig == IsDigits(vm_id) /\ ~ParseIdsRaises(id_str) /\ parse_ids(id_str) # <<>>

\* what setup_idmap prints for the same kind, ids, vm_id and authorization store
\* when there is no config store and reading it back fails
ReportWithoutConfig == setup_idmap(kind, id_str, vm_id, sub_before, NoFile, "error").stdout

\* the segments parsed from the mapping entries computed for the ids
ComputedSegments ==
    parse_idmap_lines(WithNewlines(calculate_idmap_entries(parse_ids(id_str), kind)), kind)

\* C16: for a numeric vm_id and a non-empty id set the host id that setup_idmap
\* reports is resolved over the mapping entries it has just computed, whatever
\* the unprivileged flag, and does not depend on the config store: whatever the
\* store held before and whatever reading it back gives (the new text, the old
\* text, an error), the report equals the report of a run without any config
\* store.
C16_ResolvedInMemory ==
    (pc = "done" /\ MapsIntoConfig) =>
        /\ raised = ""
        /\ Len(stdout) = 1
        /\ \A flag \in BOOLEAN :
              stdout[1].value =
                  Dec(compute_host_id_for_container_id(parse_ids(id_str)[1],
                                                       ComputedSegments, flag))
        /\ stdout = ReportWithoutConfig

C16_Witness ==
    /\ pc = "done"
    /\ MapsIntoConfig
    /\ kind = "u"
    /\ id_str = Dec(1000)
    /\ config_before = FileOf(JoinLines(
           <<IdmapLineSep(<<":", " ">>, "u", 0, STANDARD_START, STANDARD_COUNT)>>, TRUE))
    /\ config_file # config_before
    /\ mapped_val = 1000
    /\ stdout[1].value = Dec(1000)

-----------------------------------------------------------------------------
(* update_lxc_config_kind called one call at a time, any kind and any new lines *)

\* the mapping lines of kind k in store f, in store order
MappingLinesOfKind(f, k) ==
    LET ls   == ContentLines(f)
        at   == SortedList({i \in DOMAIN ls : IsMappingLineOfKind(ls[i], k)})
    IN [j \in 1..Len(at) |-> ls[at[j]]]

SequenceInit ==
    /\ pc = "call"
    /\ kind \in Kinds
    /\ ids = <<>>
    /\ idmap_entries = <<>>
    /\ AllocIdle
    /\ sub_entries = <<>>
    /\ sub_file = NoFile
    /\ sub_before = NoFile
    /\ config_file \in StoresOf(ConfigLinePool, MaxStoreLines)
    /\ config_before = config_file
    /\ calls = 0
    /\ SetupIdle
    /\ latest = [k \in Kinds |-> MappingLinesOfKind(config_file, k)]
    /\ PoolIdle
    /\ NotesIdle
    /\ ParseIdle
    /\ RaceIdle

\* update_lxc_config_kind(config_path, k, calculate_idmap_entries(id_list, k)),
\* as the uid script and the gid script call it through setup_idmap
UpdateLxcConfigAnyKind ==
    /\ pc = "call"
    /\ calls < MaxCalls
    /\ \E k \in Kinds, id_list \in StoreIdLists :
          /\ kind' = k
          /\ ids' = id_list
          /\ idmap_entries' = calculate_idmap_entries(id_list, k)
          /\ config_file' = update_lxc_config_kind(config_file, k,
                                                   calculate_idmap_entries(id_list, k))
          /\ latest' = [latest EXCEPT ![k] = calculate_idmap_entries(id_list, k)]
    /\ config_before' = config_file
    /\ calls' = calls + 1
    /\ UNCHANGED <<pc, segments, container_id, unprivileged, mapped_val,
                   sub_entries, sub_file, sub_before, setupVars, poolVars, notesVars,
                   parseVars, raceVars>>

SequenceNext == UpdateLxcConfigAnyKind

SpecSequence == SequenceInit /\ [][SequenceNext]_vars

-----------------------------------------------------------------------------
(* Properties of merges in sequence (checked under SpecSequence) *)

OtherKind(k) == IF k = "u" THEN "g" ELSE "u"

\* C17: after every call of a sequence of update_lxc_config_kind calls the
\* store's mapping lines of each kind are exactly the new lines of the most
\* recent call for that kind, or the original lines of the kind if it had no
\* call yet; and the mapping lines of the other kind are the same before and
\* after a call.
C17_SequentialMerges ==
    /\ \A k \in Kinds : MappingLinesOfKind(config_file, k) = latest[k]
    /\ calls >= 1 =>
          MappingLinesOfKind(config_file, OtherKind(kind))
              = MappingLinesOfKind(config_before, OtherKind(kind))

-----------------------------------------------------------------------------
(* Batched status queries of list-managed-oci-containers.py and
   find-containers-by-app-id.py *)

\* max_workers cap of the list-managed-containers scan
ListMaxWorkers == 8

\* max_workers cap of the find-by-application-id scan
FindMaxWorkers == 4

\* most containers in one batch
MaxBatch == 10

\* lowest vm id with a config file
FirstVmId == 98

\* the vm ids of the first n config files
VmPool(n) == {FirstVmId + i : i \in 0..(n - 1)}

\* p.name of <vmid>.conf
ConfName(v) == Dec(v) \o <<".", "c", "o", "n", "f">>

\* code point of a character of a config file name
Ascii(c) ==
    IF c = "." THEN 46
    ELSE IF c = "c" THEN 99
    ELSE IF c = "f" THEN 102
    ELSE IF c = "n" THEN 110
    ELSE IF c = "o" THEN 111
    ELSE 48 + DigitValue(c)

\* a < b for two strings
RECURSIVE NameLess(_, _)
NameLess(a, b) ==
    IF Len(b) = 0 THEN FALSE
    ELSE IF Len(a) = 0 THEN TRUE
    ELSE IF a[1] = b[1] THEN NameLess(Tail(a), Tail(b))
    ELSE Ascii(a[1]) < Ascii(b[1])

\* the vm ids in the order of sorted(base_dir.glob("*.conf"), key=lambda p: p.name)
RECURSIVE SortedByName(_)
SortedByName(vs) ==
    IF vs = {} THEN <<>>
    ELSE LET v == CHOOSE x \in vs : \A y \in vs \ {x} : NameLess(ConfName(x), ConfName(y))
         IN <<v>> \o SortedByName(vs \ {v})

\* what `pct status <vmid>` can do: report running or stopped, end with a
\* non-zero return code, or not end within the timeout
HostStates == <<"running", "stopped", "error", "timeout">>

\* subprocess.run(["pct", "status", str(vmid)], ..., timeout=5) on a host in state how
CompletedProcess(how) ==
    [raises     |-> how = "timeout",
     returncode |-> IF how = "error" THEN 2 ELSE 0,
     stdout     |-> IF how = "running"
                    THEN <<"s", "t", "a", "t", "u", "s", ":", " ",
                           "r", "u", "n", "n", "i", "n", "g", "\n">>
                    ELSE IF how = "stopped"
                    THEN <<"s", "t", "a", "t", "u", "s", ":", " ",
                           "s", "t", "o", "p", "p", "e", "d", "\n">>
                    ELSE <<>>]

\* None, which get_status also returns in place of an empty string
None == <<>>

StatusKey == <<"s", "t", "a", "t", "u", "s", ":">>

\* position of the first occurrence of pat in s, 0 when there is none
Find(s, pat) ==
    LET at == {i \in 1..(Len(s) - Len(pat) + 1) : SubSeq(s, i, i + Len(pat) - 1) = pat}
    IN IF at = {} THEN 0 ELSE SetMin(at)

\* get_status(vmid) on a host where pct behaves as host[vmid]
get_status(vmid, host) ==
    LET result == CompletedProcess(host[vmid])
    IN IF result.raises THEN None
       ELSE IF result.returncode # 0 THEN None
       ELSE LET out == Strip(result.stdout)
                at  == Find(out, StatusKey)
            IN IF at # 0
               THEN Strip(SubSeq(out, at + Len(StatusKey), Len(out)))
               ELSE out

Running == <<"r", "u", "n", "n", "i", "n", "g">>

\* for item, status in zip(containers, statuses): if status: item["status"] = status
\* (an item without the key has status None)
ListItems(vs, sts) ==
    LET n == IF Len(vs) <= Len(sts) THEN Len(vs) ELSE Len(sts)
    IN [i \in 1..n |-> [vm_id |-> vs[i], status |-> sts[i]]]

IsRunningItem(item) == item.status = Running

\* for item, status in zip(matching, statuses): if status == "running": ... running.append(item)
RunningItems(vs, sts) == SelectSeq(ListItems(vs, sts), IsRunningItem)

PrintedItems(sc, vs, sts) == IF sc = "list" THEN ListItems(vs, sts) ELSE RunningItems(vs, sts)

\* the result of a finished query stored in completion order, not with its query
SetResult_InCompletionOrder(res, fs, i, r) ==
    [res EXCEPT ![Cardinality({j \in DOMAIN fs : fs[j] = "done"}) + 1] = r]

\* the worker thread stores the result of query i in the future of query i
SetResult(res, fs, i, r) == [res EXCEPT ![i] = r]

\* the host behaves the same for every vm id, or differently from one to the next
HostScenarios ==
    {[v \in VmPool(MaxBatch) |-> "running"]} \cup
    {[v \in VmPool(MaxBatch) |-> HostStates[((v + shift) % 4) + 1]] : shift \in 0..1}

PoolInit ==
    /\ pc = "scanned"
    /\ scan \in {"list", "find"}
    /\ \E n \in 0..MaxBatch : vmids = SortedByName(VmPool(n))
    /\ pct_status \in HostScenarios
    /\ max_workers = 0
    /\ futures = <<>>
    /\ results = <<>>
    /\ reordered = FALSE
    /\ statuses = <<>>
    /\ items = <<>>
    /\ kind = "u"
    /\ ids = <<>>
    /\ idmap_entries = <<>>
    /\ AllocIdle
    /\ StoresIdle
    /\ SetupIdle
    /\ latest = NoLatest
    /\ NotesIdle
    /\ ParseIdle
    /\ RaceIdle

\* what the scanning scripts leave alone
nonPoolVars == <<allocVars, storeVars, setupVars, latest, notesVars, parseVars, raceVars>>

\* no container found: nothing to query, the empty list is printed
PrintNoContainers ==
    /\ pc = "scanned"
    /\ Len(vmids) = 0
    /\ items' = <<>>
    /\ pc' = "printed"
    /\ UNCHANGED <<scan, vmids, pct_status, max_workers, futures, results, reordered,
                   statuses, nonPoolVars>>

\* find-containers-by-app-id.py, len(matching) == 1: get_status called directly
QueryDirectly ==
    /\ pc = "scanned"
    /\ scan = "find"
    /\ Len(vmids) = 1
    /\ statuses' = <<get_status(vmids[1], pct_status)>>
    /\ items' = RunningItems(vmids, <<get_status(vmids[1], pct_status)>>)
    /\ pc' = "printed"
    /\ UNCHANGED <<scan, vmids, pct_status, max_workers, futures, results, reordered,
                   nonPoolVars>>

\* with ThreadPoolExecutor(max_workers=min(cap, len(...))) as executor:
\* executor.map(get_status, vmids) submits one query per vm id
CreatePool ==
    /\ pc = "scanned"
    /\ \/ scan = "list" /\ Len(vmids) >= 1
       \/ scan = "find" /\ Len(vmids) >= 2
    /\ max_workers' = (LET cap == IF scan = "list" THEN ListMaxWorkers ELSE FindMaxWorkers
                       IN IF cap <= Len(vmids) THEN cap ELSE Len(vmids))
    /\ futures' = [i \in 1..Len(vmids) |-> "queued"]
    /\ results' = [i \in 1..Len(vmids) |-> None]
    /\ pc' = "pool"
    /\ UNCHANGED <<scan, vmids, pct_status, reordered, statuses, items, nonPoolVars>>

RunningQueries == {i \in DOMAIN futures : futures[i] = "running"}

QueuedQueries == {i \in DOMAIN futures : futures[i] = "queued"}

\* a worker thread that is free takes the oldest queued query
StartQuery ==
    /\ pc = "pool"
    /\ QueuedQueries # {}
    /\ Cardinality(RunningQueries) < max_workers
    /\ futures' = [futures EXCEPT ![SetMin(QueuedQueries)] = "running"]
    /\ UNCHANGED <<pc, scan, vmids, pct_status, max_workers, results, reordered,
                   statuses, items, nonPoolVars>>

\* any running query ends: get_status returns and the future gets its result
FinishQuery ==
    /\ pc = "pool"
    /\ \E i \in RunningQueries :
          /\ results' = SetResult(results, futures, i, get_status(vmids[i], pct_status))
          /\ futures' = [futures EXCEPT ![i] = "done"]
          /\ reordered' = (reordered \/ \E j \in 1..(i - 1) : futures[j] # "done")
    /\ UNCHANGED <<pc, scan, vmids, pct_status, max_workers, statuses, items, nonPoolVars>>

\* statuses = list(executor.map(...)) once every query is done; the statuses are
\* attached to the containers and the containers printed
CollectAndPrint ==
    /\ pc = "pool"
    /\ \A i \in DOMAIN futures : futures[i] = "done"
    /\ statuses' = results
    /\ items' = PrintedItems(scan, vmids, results)
    /\ pc' = "printed"
    /\ UNCHANGED <<scan, vmids, pct_status, max_workers, futures, results, reordered,
                   nonPoolVars>>

PoolNext ==
    \/ PrintNoContainers
    \/ QueryDirectly
    \/ CreatePool
    \/ StartQuery
    \/ FinishQuery
    \/ CollectAndPrint

SpecPool == PoolInit /\ [][PoolNext]_vars

-----------------------------------------------------------------------------
(* Properties of the batched status queries (checked under SpecPool) *)

Stopped == <<"s", "t", "o", "p", "p", "e", "d">>

\* the status token the host has for vm id v: the state pct reports, or none
\* (unknown) when the query fails or times out
Token(v) ==
    IF pct_status[v] = "running" THEN Running
    ELSE IF pct_status[v] = "stopped" THEN Stopped
    ELSE <<>>

\* positions of the queried containers whose token is "running"
RunningPositions == SortedList({i \in DOMAIN vmids : Token(vmids[i]) = Running})

\* C18: in a batched status query every result belongs to the container at the
\* same position of the input list, whatever the order in which the worker
\* threads finish; a query that fails or times out gives no status for its own
\* container and leaves the batch and every other container's result alone:
\* the list scan prints every container with the token of its own vm id (none
\* when unknown), the find scan prints exactly the containers whose own token
\* is "running", in input order.
C18_ResultsKeepInputOrder ==
    /\ pc = "pool" =>
          \A i \in DOMAIN futures : futures[i] = "done" => results[i] = Token(vmids[i])
    /\ (pc = "printed" /\ scan = "list") =>
          /\ Len(items) = Len(vmids)
          /\ \A i \in DOMAIN items :
                /\ items[i].vm_id = vmids[i]
                /\ items[i].status = Token(vmids[i])
    /\ (pc = "printed" /\ scan = "find") =>
          items = [j \in 1..Len(RunningPositions) |->
                      [vm_id |-> vmids[RunningPositions[j]], status |-> Running]]

C18_Witness ==
    /\ pc = "printed"
    /\ scan = "list"
    /\ reordered
    /\ Len(items) = 4
    /\ \E i, j \in DOMAIN items :
          /\ pct_status[vmids[i]] = "timeout"
          /\ items[i].status = <<>>
          /\ items[j].status = Running

\* C19: the worker pool of a batched status query has min(fixed cap, batch size)
\* workers, the cap being 8 in the list scan and 4 in the find scan, never more
\* queries run at once, and in both scans a batch of exactly one container is
\* queried without a pool.
C19_PoolSize ==
    pc \in {"pool", "printed"} =>
        /\ Len(vmids) = 1 => (max_workers = 0 /\ futures = <<>>)
        /\ Len(vmids) >= 2 =>
              LET fixed_cap == IF scan = "list" THEN 8 ELSE 4
              IN max_workers = (IF fixed_cap <= Len(vmids) THEN fixed_cap ELSE Len(vmids))
        /\ Cardinality(RunningQueries) <= max_workers

-----------------------------------------------------------------------------
(* The notes writers: lxc-notes-common.py with host-write-docker-compose-notes.py,
   pre_start/host-write-lxc-notes.py and host-write-lxc-notes.py *)

\* Proxmox limits the description to this many characters
PVE_DESCRIPTION_LIMIT == 8192

\* how far beyond (and below) the limit the rendered notes reach
MaxOver == 1

ManagedMarker ==
    <<"<", "!", "-", "-", " ", "o", "c", "i", "-", "l", "x", "c", "-", "d", "e", "p",
      "l", "o", "y", "e", "r", ":", "m", "a", "n", "a", "g", "e", "d", " ", "-",
      "-", ">">>

OciImageMarker ==
    <<"<", "!", "-", "-", " ", "o", "c", "i", "-", "l", "x", "c", "-", "d", "e", "p",
      "l", "o", "y", "e", "r", ":", "o", "c", "i", "-", "i", "m", "a", "g", "e", " ">>

AppIdMarker ==
    <<"<", "!", "-", "-", " ", "o", "c", "i", "-", "l", "x", "c", "-", "d", "e", "p",
      "l", "o", "y", "e", "r", ":", "a", "p", "p", "l", "i", "c", "a", "t", "i",
      "o", "n", "-", "i", "d", " ">>

AppNameMarker ==
    <<"<", "!", "-", "-", " ", "o", "c", "i", "-", "l", "x", "c", "-", "d", "e", "p",
      "l", "o", "y", "e", "r", ":", "a", "p", "p", "l", "i", "c", "a", "t", "i",
      "o", "n", "-", "n", "a", "m", "e", " ">>

VersionMarker ==
    <<"<", "!", "-", "-", " ", "o", "c", "i", "-", "l", "x", "c", "-", "d", "e", "p",
      "l", "o", "y", "e", "r", ":", "v", "e", "r", "s", "i", "o", "n", " ">>

LogUrlMarker ==
    <<"<", "!", "-", "-", " ", "o", "c", "i", "-", "l", "x", "c", "-", "d", "e", "p",
      "l", "o", "y", "e", "r", ":", "l", "o", "g", "-", "u", "r", "l", " ">>

IconUrlMarker ==
    <<"<", "!", "-", "-", " ", "o", "c", "i", "-", "l", "x", "c", "-", "d", "e", "p",
      "l", "o", "y", "e", "r", ":", "i", "c", "o", "n", "-", "u", "r", "l", " ",
      "d", "a", "t", "a", ":">>

IconUrlEllipsis ==
    <<";", "b", "a", "s", "e", "6", "4", ",", ".", ".", ".", " ", "-", "-", ">">>

UsernameMarker ==
    <<"<", "!", "-", "-", " ", "o", "c", "i", "-", "l", "x", "c", "-", "d", "e", "p",
      "l", "o", "y", "e", "r", ":", "u", "s", "e", "r", "n", "a", "m", "e", " ">>

UidMarker ==
    <<"<", "!", "-", "-", " ", "o", "c", "i", "-", "l", "x", "c", "-", "d", "e", "p",
      "l", "o", "y", "e", "r", ":", "u", "i", "d", " ">>

GidMarker ==
    <<"<", "!", "-", "-", " ", "o", "c", "i", "-", "l", "x", "c", "-", "d", "e", "p",
      "l", "o", "y", "e", "r", ":", "g", "i", "d", " ">>

MarkerEnd ==
    <<" ", "-", "-", ">">>

Logs ==
    <<"/", "l", "o", "g", "s", "/">>

ContainerTitle ==
    <<"C", "o", "n", "t", "a", "i", "n", "e", "r">>

ImgSrcData ==
    <<"<", "i", "m", "g", " ", "s", "r", "c", "=", "\"", "d", "a", "t", "a", ":">>

Base64Comma ==
    <<";", "b", "a", "s", "e", "6", "4", ",">>

ImgSizeAlt ==
    <<"\"", " ", "w", "i", "d", "t", "h", "=", "\"", "1", "6", "\"", " ", "h", "e",
      "i", "g", "h", "t", "=", "\"", "1", "6", "\"", " ", "a", "l", "t", "=", "\"">>

ImgEnd ==
    <<"\"", "/", ">">>

ManagedByLink ==
    <<"M", "a", "n", "a", "g", "e", "d", " ", "b", "y", " ", "[", "o", "c", "i", "-",
      "l", "x", "c", "-", "d", "e", "p", "l", "o", "y", "e", "r", "]", "(">>

ManagedByLinkEnd ==
    <<"/", ")", ".">>

ManagedByDeployer ==
    <<"M", "a", "n", "a", "g", "e", "d", " ", "b", "y", " ", "*", "*", "o", "c", "i",
      "-", "l", "x", "c", "-", "d", "e", "p", "l", "o", "y", "e", "r", "*", "*", ".">>

ApplicationIdLabel ==
    <<"A", "p", "p", "l", "i", "c", "a", "t", "i", "o", "n", " ", "I", "D", ":", " ">>

VersionLabel ==
    <<"V", "e", "r", "s", "i", "o", "n", ":", " ">>

OciImageLabel ==
    <<"O", "C", "I", " ", "i", "m", "a", "g", "e", ":", " ">>

LxcTemplateLabel ==
    <<"L", "X", "C", " ", "t", "e", "m", "p", "l", "a", "t", "e", ":", " ">>

LogFileLabel ==
    <<"L", "o", "g", " ", "f", "i", "l", "e", ":", " ">>

VarLogLxc ==
    <<"/", "v", "a", "r", "/", "l", "o", "g", "/", "l", "x", "c", "/">>

DotLog ==
    <<".", "l", "o", "g">>

LinksHeading ==
    <<"#", "#", " ", "L", "i", "n", "k", "s">>

LxcManagerTitle ==
    <<"#", " ", "L", "X", "C", " ", "M", "a", "n", "a", "g", "e", "r">>

ManagedByLxcManager ==
    <<"M", "a", "n", "a", "g", "e", "d", " ", "b", "y", " ", "*", "*", "l", "x", "c",
      "-", "m", "a", "n", "a", "g", "e", "r", "*", "*", ".">>

DataColon ==
    <<"]", "(", "d", "a", "t", "a", ":">>

DockerPrefix ==
    <<"d", "o", "c", "k", "e", "r", ":", "/", "/">>

OciPrefix ==
    <<"o", "c", "i", ":", "/", "/">>

ImagePng ==
    <<"i", "m", "a", "g", "e", "/", "p", "n", "g">>

AppNameValue ==
    <<"N", "o", "d", "e", "-", "R", "E", "D">>

AppIdValue ==
    <<"n", "o", "d", "e", "-", "r", "e", "d">>

VersionValue ==
    <<"4", ".", "0">>

OciImageValue ==
    <<"d", "o", "c", "k", "e", "r", ":", "/", "/", "n", "o", "d", "e", "r", "e", "d",
      "/", "n", "o", "d", "e", "-", "r", "e", "d">>

Vmid == <<"1", "0", "1">>

not_defined(val) == val = NotDefined \/ val = <<>>

normalize_value(raw) == IF not_defined(raw) THEN <<>> ELSE raw

strip_oci_prefix(oci_image_raw) ==
    IF StartsWith(oci_image_raw, DockerPrefix)
    THEN SubSeq(oci_image_raw, Len(DockerPrefix) + 1, Len(oci_image_raw))
    ELSE IF StartsWith(oci_image_raw, OciPrefix)
    THEN SubSeq(oci_image_raw, Len(OciPrefix) + 1, Len(oci_image_raw))
    ELSE oci_image_raw

\* the template variables after normalisation (main of the lxc notes scripts,
\* build_notes of the docker-compose script)
Normalized(t) ==
    [template_path     |-> normalize_value(t.template_path),
     oci_image_visible |-> strip_oci_prefix(normalize_value(t.oci_image)),
     app_id            |-> normalize_value(t.application_id),
     app_name          |-> normalize_value(t.application_name),
     version           |-> normalize_value(t.oci_image_tag),
     deployer_url      |-> normalize_value(t.deployer_base_url),
     ve_context        |-> normalize_value(t.ve_context_key),
     hostname          |-> normalize_value(t.hostname),
     icon_base64       |-> normalize_value(t.icon_base64),
     icon_mime_type    |-> normalize_value(t.icon_mime_type),
     username          |-> normalize_value(t.username),
     uid               |-> normalize_value(t.uid),
     gid               |-> normalize_value(t.gid)]

\* the lines when the condition holds, no line otherwise
LinesIf(cond, lines) == IF cond THEN lines ELSE <<>>

\* truth value of a str
Truthy(str) == Len(str) > 0

\* "%s/logs/%s/%s" % (deployer_url, vmid, ve_context)
LogUrl(a) == a.deployer_url \o Logs \o Vmid \o <<"/">> \o a.ve_context

\* the markers up to the icon url (all markers of host-write-lxc-notes.py)
MarkersToIcon(a, oci_image_visible) ==
    <<ManagedMarker>>
    \o LinesIf(Truthy(oci_image_visible), <<OciImageMarker \o oci_image_visible \o MarkerEnd>>)
    \o LinesIf(Truthy(a.app_id), <<AppIdMarker \o a.app_id \o MarkerEnd>>)
    \o LinesIf(Truthy(a.app_name), <<AppNameMarker \o a.app_name \o MarkerEnd>>)
    \o LinesIf(Truthy(a.version), <<VersionMarker \o a.version \o MarkerEnd>>)
    \o LinesIf(Truthy(a.deployer_url) /\ Truthy(a.ve_context),
               <<LogUrlMarker \o LogUrl(a) \o MarkerEnd>>)
    \o LinesIf(Truthy(a.icon_base64) /\ Truthy(a.icon_mime_type),
               <<IconUrlMarker \o a.icon_mime_type \o IconUrlEllipsis>>)

build_hidden_markers(a, oci_image_visible) ==
    MarkersToIcon(a, oci_image_visible)
    \o LinesIf(Truthy(a.username), <<UsernameMarker \o a.username \o MarkerEnd>>)
    \o LinesIf(Truthy(a.uid), <<UidMarker \o a.uid \o MarkerEnd>>)
    \o LinesIf(Truthy(a.gid), <<GidMarker \o a.gid \o MarkerEnd>>)

\* app_name if app_name else app_id
IconAlt(a) == IF Truthy(a.app_name) THEN a.app_name ELSE a.app_id

build_visible_header(a, include_icon) ==
    <<<<"#", " ">> \o (IF Truthy(a.app_name) THEN a.app_name
                       ELSE IF Truthy(a.app_id) THEN a.app_id
                       ELSE ContainerTitle),
      <<>>>>
    \o LinesIf(include_icon /\ Truthy(a.icon_base64) /\ Truthy(a.icon_mime_type),
               <<ImgSrcData \o a.icon_mime_type \o Base64Comma \o a.icon_base64
                    \o ImgSizeAlt \o IconAlt(a) \o ImgEnd,
                 <<>>>>)
    \o (IF Truthy(a.deployer_url)
        THEN <<ManagedByLink \o a.deployer_url \o ManagedByLinkEnd>>
        ELSE <<ManagedByDeployer>>)

build_app_info(a) ==
    LinesIf(Truthy(a.app_id) /\ a.app_id # a.app_name, <<<<>>, ApplicationIdLabel \o a.app_id>>)
    \o LinesIf(Truthy(a.version), <<<<>>, VersionLabel \o a.version>>)

build_links_section(a, link_text) ==
    LinesIf(Truthy(a.deployer_url) /\ Truthy(a.ve_context),
            <<<<>>, LinksHeading,
              <<"-", " ", "[">> \o link_text \o <<"]", "(">> \o LogUrl(a) \o <<")">>>>)

\* the "OCI image" or "LXC template" line and the "Log file" line of the lxc
\* notes scripts
ImageAndLogLines(a) ==
    (IF Truthy(a.oci_image_visible) THEN <<<<>>, OciImageLabel \o a.oci_image_visible>>
     ELSE IF Truthy(a.template_path) THEN <<<<>>, LxcTemplateLabel \o a.template_path>>
     ELSE <<>>)
    \o LinesIf(Truthy(a.hostname),
               <<<<>>, LogFileLabel \o VarLogLxc \o a.hostname \o <<"-">> \o Vmid \o DotLog>>)

LogsText == <<"L", "o", "g", "s">>

ConsoleLogsText == <<"C", "o", "n", "s", "o", "l", "e", " ", "L", "o", "g", "s">>

\* build_notes(include_icon) of host-write-docker-compose-notes.py
ComposeNotes(a, include_icon) ==
    JoinLines(build_hidden_markers(a, <<>>)
              \o build_visible_header(a, include_icon)
              \o build_app_info(a)
              \o build_links_section(a, LogsText), FALSE)

\* build_notes(include_icon=..., **notes_args) of pre_start/host-write-lxc-notes.py
PreStartNotes(a, include_icon) ==
    JoinLines(build_hidden_markers(a, a.oci_image_visible)
              \o build_visible_header(a, include_icon)
              \o build_app_info(a)
              \o ImageAndLogLines(a)
              \o build_links_section(a, ConsoleLogsText), FALSE)

\* the application lines of host-write-lxc-notes.py
RootAppInfo(a) ==
    LinesIf(Truthy(a.app_id) \/ Truthy(a.app_name),
            <<<<>>>>
            \o (IF Truthy(a.app_id) /\ Truthy(a.app_name)
                THEN <<<<"#", "#", " ">> \o a.app_name, <<>>, ApplicationIdLabel \o a.app_id>>
                ELSE IF Truthy(a.app_name)
                THEN <<<<"#", "#", " ">> \o a.app_name>>
                ELSE <<ApplicationIdLabel \o a.app_id>>))

\* notes_content of host-write-lxc-notes.py: the icon is always part of it
RootNotes(a) ==
    JoinLines(MarkersToIcon(a, a.oci_image_visible)
              \o <<LxcManagerTitle, <<>>>>
              \o LinesIf(Truthy(a.icon_base64) /\ Truthy(a.icon_mime_type),
                         <<<<"!", "[">> \o IconAlt(a) \o DataColon \o a.icon_mime_type
                              \o Base64Comma \o a.icon_base64 \o <<")">>,
                           <<>>>>)
              \o <<ManagedByLxcManager>>
              \o RootAppInfo(a)
              \o LinesIf(Truthy(a.version), <<<<>>, VersionLabel \o a.version>>)
              \o ImageAndLogLines(a)
              \o build_links_section(a, ConsoleLogsText), FALSE)

\* the text write_notes hands to pct set
write_notes(with_icon, without_icon) ==
    IF Len(with_icon) > PVE_DESCRIPTION_LIMIT THEN without_icon ELSE with_icon

Writers == {"compose", "pre_start", "root"}

\* the notes of writer w with the inline icon
NotesWithIcon(w, a) ==
    IF w = "compose" THEN ComposeNotes(a, TRUE)
    ELSE IF w = "pre_start" THEN PreStartNotes(a, TRUE)
    ELSE RootNotes(a)

\* an icon of n base64 characters
IconPayload(n) == [i \in 1..n |-> "A"]

\* template variables without an icon: application id, name, version and image
\* are set or left to the NOT_DEFINED placeholder, the others are not set
BaseTemplates ==
    { [template_path |-> NotDefined, oci_image |-> image, application_id |-> app_id,
       application_name |-> app_name, oci_image_tag |-> tag,
       deployer_base_url |-> NotDefined, ve_context_key |-> NotDefined,
       hostname |-> NotDefined, icon_base64 |-> NotDefined, icon_mime_type |-> mime,
       username |-> NotDefined, uid |-> NotDefined, gid |-> NotDefined] :
        image \in {NotDefined, OciImageValue}, app_id \in {NotDefined, AppIdValue},
        app_name \in {NotDefined, AppNameValue}, tag \in {NotDefined, VersionValue},
        mime \in {NotDefined, ImagePng} }

\* length of the notes of writer w around the icon's characters
NotesAroundIcon(w, t) ==
    Len(NotesWithIcon(w, Normalized([t EXCEPT !.icon_base64 = IconPayload(1)]))) - 1

\* icon sizes: no icon, a small icon, and icons that bring the notes of writer w
\* to the limit and up to MaxOver characters below and beyond it
IconSizes(w, t) ==
    {0, 16} \cup {PVE_DESCRIPTION_LIMIT - NotesAroundIcon(w, t) + over : over \in (0 - MaxOver)..MaxOver}

NotesInit ==
    /\ pc = "start"
    /\ writer \in Writers
    /\ \E t \in BaseTemplates :
          \E n \in IconSizes(writer, t) :
             template = [t EXCEPT !.icon_base64 = IF n = 0 THEN NotDefined ELSE IconPayload(n)]
    /\ notes_with_icon = <<>>
    /\ notes_without_icon = <<>>
    /\ description = <<>>
    /\ kind = "u"
    /\ ids = <<>>
    /\ idmap_entries = <<>>
    /\ AllocIdle
    /\ StoresIdle
    /\ SetupIdle
    /\ latest = NoLatest
    /\ PoolIdle
    /\ ParseIdle
    /\ RaceIdle

NotesWritten == <<[id |-> "notes_written", value |-> <<"t", "r", "u", "e">>]>>

\* what the notes writers leave alone
nonNotesVars ==
    <<allocVars, storeVars, id_str, vm_id, raised, latest, poolVars, parseVars, raceVars>>

\* host-write-docker-compose-notes.py main: both renderings, then write_notes
WriteComposeNotes ==
    /\ pc = "start"
    /\ writer = "compose"
    /\ \E a \in {Normalized(template)} :
          \E with_icon \in {ComposeNotes(a, TRUE)}, without_icon \in {ComposeNotes(a, FALSE)} :
             /\ notes_with_icon' = with_icon
             /\ notes_without_icon' = without_icon
             /\ description' = write_notes(with_icon, without_icon)
    /\ stdout' = NotesWritten
    /\ pc' = "written"
    /\ UNCHANGED <<writer, template, nonNotesVars>>

\* pre_start/host-write-lxc-notes.py main: the icon-less rendering is built only
\* when the one with the icon exceeds the limit
WritePreStartNotes ==
    /\ pc = "start"
    /\ writer = "pre_start"
    /\ \E a \in {Normalized(template)} :
          \E with_icon \in {PreStartNotes(a, TRUE)} :
             /\ notes_with_icon' = with_icon
             /\ IF Len(with_icon) > PVE_DESCRIPTION_LIMIT
                THEN \E without_icon \in {PreStartNotes(a, FALSE)} :
                        /\ notes_without_icon' = without_icon
                        /\ description' = without_icon
                ELSE /\ notes_without_icon' = <<>>
                     /\ description' = with_icon
    /\ stdout' = NotesWritten
    /\ pc' = "written"
    /\ UNCHANGED <<writer, template, nonNotesVars>>

\* host-write-lxc-notes.py main: one rendering, handed to pct set as it is
WriteRootNotes ==
    /\ pc = "start"
    /\ writer = "root"
    /\ \E with_icon \in {RootNotes(Normalized(template))} :
          /\ notes_with_icon' = with_icon
          /\ description' = with_icon
    /\ notes_without_icon' = <<>>
    /\ stdout' = NotesWritten
    /\ pc' = "written"
    /\ UNCHANGED <<writer, template, nonNotesVars>>

NotesNext == WriteComposeNotes \/ WritePreStartNotes \/ WriteRootNotes

SpecNotes == NotesInit /\ [][NotesNext]_vars

-----------------------------------------------------------------------------
(* Properties of the notes writers (checked under SpecNotes) *)

\* the text carries an inline icon: a data URL with base64 characters (the
\* icon-url marker ends with "..." instead)
HasInlineIcon(text) == Find(text, <<";", "b", "a", "s", "e", "6", "4", ",", "A">>) # 0

-----------------------------------------------------------------------------
(* lxc_config_parser_lib.py: the regular expressions of the notes markers *)

\* None as the value of an LxcConfig field (no text is equal to it)
Unset == <<"None">>

\* no match object
NoMatch == <<>>

Arrow == <<"-", "-", ">">>

\* the lower-case form of each upper-case letter
ToLower == [c \in Range(UpperCase) |-> LowerCase[CHOOSE j \in 1..26 : UpperCase[j] = c]]

\* the lower-case form of one character
LowerChar(c) == IF c \in DOMAIN ToLower THEN ToLower[c] ELSE c

\* the literal lit stands in t at position pos, letter case ignored
\* (re.IGNORECASE; lit is in lower case)
AtIgnoreCase(t, pos, lit) ==
    /\ pos + Len(lit) - 1 <= Len(t)
    /\ \A j \in 1..Len(lit) : LowerChar(t[pos + j - 1]) = lit[j]

\* F(x), with x evaluated once
Let(x, F(_)) == CHOOSE v \in {F(y) : y \in {x}} : TRUE

\* the first (last) position in a..b that satisfies P, 0 when there is none
First(a, b, P(_)) ==
    IF \E i \in a..b : P(i)
    THEN CHOOSE i \in a..b : P(i) /\ \A j \in a..(i - 1) : ~P(j)
    ELSE 0

Last(a, b, P(_)) ==
    IF \E i \in a..b : P(i)
    THEN CHOOSE i \in a..b : P(i) /\ \A j \in (i + 1)..b : ~P(j)
    ELSE 0

\* where a greedy \s* that starts at pos ends: the first position from pos on
\* that holds no whitespace, Len(t) + 1 when there is none
SkipSpace(t, pos) ==
    Let(First(pos, Len(t), LAMBDA i : t[i] \notin Whitespace),
        LAMBDA f : IF f = 0 THEN Len(t) + 1 ELSE f)

\* the first position of the whitespace that ends just before position q
SpaceStart(t, q) == Last(1, q - 1, LAMBDA i : t[i] \notin Whitespace) + 1

\* the group of  (.+?)\s*-->  from position g on: it runs, within the line, to
\* the whitespace before the next "-->" (at q)
GroupBefore(t, g, q) ==
    Let(IF SpaceStart(t, q) > g + 1 THEN SpaceStart(t, q) ELSE g + 1,
        LAMBDA e : IF q # 0 /\ \A i \in g..(e - 1) : t[i] # "\n"
                   THEN [group |-> SubSeq(t, g, e - 1), end |-> q + 3]
                   ELSE NoMatch)

GroupToArrow(t, g) ==
    Let(First(g + 1, Len(t) - 2, LAMBDA i : t[i] = "-" /\ t[i + 1] = "-" /\ t[i + 2] = ">"),
        LAMBDA q : GroupBefore(t, g, q))

\* the match of  \s+(.+?)\s*-->  from position a on. \s+ is greedy and runs to
\* the first character g that is no whitespace, where the lazy group starts.
\* When that fails and "-->" stands at g itself, \s+ gives one character of
\* whitespace back to the group.
ValueToArrow(t, a, g) ==
    Let(<<GroupToArrow(t, g), Last(a + 1, g - 1, LAMBDA i : t[i] # "\n")>>,
        LAMBDA x : IF g = a THEN NoMatch
                   ELSE IF x[1] # NoMatch THEN x[1]
                   ELSE IF g + 2 <= Len(t) /\ SubSeq(t, g, g + 2) = Arrow /\ x[2] # 0
                   THEN [group |-> <<t[x[2]]>>, end |-> g + 3]
                   ELSE NoMatch)

\* the match of  (?:oci-lxc-deployer):<field>\s+(.+?)\s*-->  that starts at
\* position p (name is "oci-lxc-deployer:<field>")
MarkerMatchAt(t, p, name) ==
    IF ~AtIgnoreCase(t, p, name) THEN NoMatch
    ELSE Let(SkipSpace(t, p + Len(name)), LAMBDA g : ValueToArrow(t, p + Len(name), g))

\* pattern.search(t, from) of a marker pattern: the leftmost match
MarkerSearch(t, name, from) ==
    Let(First(from, Len(t), LAMBDA i : MarkerMatchAt(t, i, name) # NoMatch),
        LAMBDA p : IF p = 0 THEN NoMatch ELSE MarkerMatchAt(t, p, name))

\* the tokens of the visible patterns besides literals
Space0 == <<"\\s*">>

Space1 == <<"\\s+">>

\* the position after the tokens k, k + 1, ... matched from pos on, 0 when they
\* do not match; every \s* and \s+ is followed by a literal that starts with no
\* whitespace, so it takes all the whitespace there is
RECURSIVE MatchTokens(_, _, _, _)
MatchTokens(t, pos, tokens, k) ==
    IF k > Len(tokens) THEN pos
    ELSE IF tokens[k] \in {Space0, Space1}
    THEN Let(SkipSpace(t, pos),
             LAMBDA g : IF tokens[k] = Space1 /\ g = pos THEN 0
                        ELSE MatchTokens(t, g, tokens, k + 1))
    ELSE IF AtIgnoreCase(t, pos, tokens[k])
    THEN Let(pos + Len(tokens[k]), LAMBDA g : MatchTokens(t, g, tokens, k + 1))
    ELSE 0

\* the group of  (.+?)\s*$  from position g on (re.MULTILINE): it runs to the
\* last character of the line that is no whitespace
GroupToEndOfLine(t, g) ==
    Let(First(g, Len(t), LAMBDA i : t[i] = "\n"),
        LAMBDA newline :
            Let(Last(g, IF newline = 0 THEN Len(t) ELSE newline - 1,
                     LAMBDA i : t[i] \notin Whitespace),
                LAMBDA last : [group |-> SubSeq(t, g, last), end |-> last + 1]))

\* the tail  \s*(.+?)\s*$  (min_space = 0) or  \s+(.+?)\s*$  (min_space = 1) of a
\* visible pattern from position h on: the greedy whitespace runs to the first
\* character g that is none, where the lazy group starts; when only whitespace
\* follows h the group is the last character of it that is no newline
ValueToEndOfLine(t, h, g, min_space) ==
    IF g - h < min_space THEN NoMatch
    ELSE IF g <= Len(t) THEN GroupToEndOfLine(t, g)
    ELSE Let(Last(h + min_space, Len(t), LAMBDA i : t[i] # "\n"),
             LAMBDA given_back : IF given_back = 0 THEN NoMatch
                                 ELSE [group |-> <<t[given_back]>>, end |-> given_back + 1])

\* the match of <tokens><tail> from position pos on
ValueMatch(t, pos, pat) ==
    Let(MatchTokens(t, pos, pat.tokens, 1),
        LAMBDA h : IF h = 0 THEN NoMatch
                   ELSE Let(SkipSpace(t, h),
                            LAMBDA g : ValueToEndOfLine(t, h, g, pat.min_space)))

\* the match of a visible pattern  ^\s*#?<tokens><tail>  whose first character
\* that is no whitespace stands at r: the optional "#" is taken first and
\* given back when the rest does not match
VisibleMatchAt(t, r, pat) ==
    Let(IF pat.hash /\ t[r] = "#" THEN ValueMatch(t, r + 1, pat) ELSE NoMatch,
        LAMBDA with_hash : IF with_hash # NoMatch THEN with_hash ELSE ValueMatch(t, r, pat))

\* only whitespace stands between the start of the line and position r
RECURSIVE OnlySpaceBefore(_, _)
OnlySpaceBefore(t, r) ==
    IF r = 1 \/ t[r - 1] = "\n" THEN TRUE
    ELSE t[r - 1] \in Whitespace /\ OnlySpaceBefore(t, r - 1)

\* pattern.search(t) of a visible pattern: ^\s* starts at the start of a line
\* and runs to the first character of the text that is no whitespace, so the
\* candidates are the first such characters of the lines, left to right
VisibleSearch(t, pat) ==
    Let(First(1, Len(t), LAMBDA i : /\ t[i] \notin Whitespace
                                    /\ OnlySpaceBefore(t, i)
                                    /\ VisibleMatchAt(t, i, pat) # NoMatch),
        LAMBDA r : IF r = 0 THEN NoMatch ELSE VisibleMatchAt(t, r, pat))

Marker(name) == [marker |-> TRUE, name |-> name]

Visible(hash, tokens, min_space) ==
    [marker |-> FALSE, hash |-> hash, tokens |-> tokens, min_space |-> min_space]

OCI_MARKER_RE == Marker(<<"o", "c", "i", "-", "l", "x", "c", "-", "d", "e", "p", "l",
                          "o", "y", "e", "r", ":", "o", "c",
                          "i", "-", "i", "m", "a", "g", "e">>)

OCI_VISIBLE_RE == Visible(FALSE, <<<<"o", "c", "i", " ", "i", "m", "a", "g", "e", ":">>>>, 0)

APP_ID_MARKER_RE == Marker(<<"o", "c", "i", "-", "l", "x", "c", "-", "d", "e", "p",
                             "l", "o", "y", "e", "r", ":",
                             "a", "p", "p", "l", "i", "c",
                             "a", "t", "i", "o", "n", "-",
                             "i", "d">>)

APP_NAME_MARKER_RE == Marker(<<"o", "c", "i", "-", "l", "x", "c", "-", "d", "e", "p",
                               "l", "o", "y", "e", "r",
                               ":", "a", "p", "p", "l",
                               "i", "c", "a", "t", "i",
                               "o", "n", "-", "n", "a",
                               "m", "e">>)

APP_ID_VISIBLE_RE ==
    Visible(TRUE, <<Space0, <<"a", "p", "p", "l", "i", "c", "a", "t", "i", "o", "n">>, Space1, <<"i", "d">>, Space0, <<":">>>>, 0)

\* a heading of any level: ^\s*#?\s*#\s+(.+?)\s*$
APP_NAME_VISIBLE_RE_AnyHeading == Visible(TRUE, <<Space0, <<"#">>>>, 1)

APP_NAME_VISIBLE_RE == Visible(TRUE, <<Space0, <<"#", "#">>>>, 1)

VERSION_VISIBLE_RE == Visible(TRUE, <<Space0, <<"v", "e", "r", "s", "i", "o", "n">>, Space0, <<":">>>>, 0)

ADDON_MARKER_RE == Marker(<<"o", "c", "i", "-", "l", "x", "c", "-", "d", "e", "p", "l",
                            "o", "y", "e", "r", ":", "a",
                            "d", "d", "o", "n">>)

USERNAME_MARKER_RE == Marker(<<"o", "c", "i", "-", "l", "x", "c", "-", "d", "e", "p",
                               "l", "o", "y", "e", "r",
                               ":", "u", "s", "e", "r",
                               "n", "a", "m", "e">>)

UID_MARKER_RE == Marker(<<"o", "c", "i", "-", "l", "x", "c", "-", "d", "e", "p", "l",
                          "o", "y", "e", "r", ":", "u", "i", "d">>)

GID_MARKER_RE == Marker(<<"o", "c", "i", "-", "l", "x", "c", "-", "d", "e", "p", "l",
                          "o", "y", "e", "r", ":", "g", "i", "d">>)

MANAGED_RE == <<"o", "c", "i", "-", "l", "x", "c", "-", "d", "e", "p", "l", "o", "y",
                "e", "r", ":", "m", "a", "n", "a", "g", "e", "d">>

\* pattern.search(text)
Search(text, pattern) ==
    IF pattern.marker THEN MarkerSearch(text, pattern.name, 1)
    ELSE VisibleSearch(text, pattern)

-----------------------------------------------------------------------------
(* lxc_config_parser_lib.py: parse_lxc_config *)

\* the patterns k, k + 1, ... of the list
RECURSIVE ExtractFrom(_, _, _)
ExtractFrom(text, patterns, k) ==
    IF k > Len(patterns) THEN Unset
    ELSE Let(Search(text, patterns[k]),
             LAMBDA m : IF m # NoMatch /\ Strip(m.group) # <<>> THEN Strip(m.group)
                        ELSE ExtractFrom(text, patterns, k + 1))

_extract_from_patterns(text, patterns) == ExtractFrom(text, patterns, 1)

\* pattern.findall(text): the groups of the matches, each search starting
\* where the match before it ended
RECURSIVE FindAll(_, _, _)
FindAll(text, name, from) ==
    Let(MarkerSearch(text, name, from),
        LAMBDA m : IF m = NoMatch THEN <<>>
                   ELSE <<m.group>> \o FindAll(text, name, m.end))

_extract_all_matches(text, pattern) ==
    Let(FindAll(text, pattern.name, 1),
        LAMBDA matches : SelectSeq([i \in 1..Len(matches) |-> Strip(matches[i])],
                                   LAMBDA m : m # <<>>))

\* the character with code point n, for the code points of the notes texts
Chr(n) ==
    IF n = 10 THEN "\n"
    ELSE IF n = 32 THEN " "
    ELSE IF n = 37 THEN "%"
    ELSE IF n = 45 THEN "-"
    ELSE IF n = 58 THEN ":"
    ELSE IF n = 60 THEN "<"
    ELSE IF n = 62 THEN ">"
    ELSE IF n \in 48..57 THEN Digits[n - 47]
    ELSE IF n \in 65..90 THEN UpperCase[n - 64]
    ELSE IF n \in 97..122 THEN LowerCase[n - 96]
    ELSE "?"

HexDigits == <<"0", "1", "2", "3", "4", "5", "6", "7", "8", "9", "a", "b", "c", "d",
               "e", "f">>

IsHex(c) == \E d \in 1..16 : HexDigits[d] = LowerChar(c)

HexValue(c) == (CHOOSE d \in 1..16 : HexDigits[d] = LowerChar(c)) - 1

\* text with the escape sequences of `width` characters that start at the
\* positions `at` replaced by one character each
RECURSIVE Unescape(_, _, _, _)
Unescape(text, at, width, char) ==
    IF at = {} THEN text
    ELSE Let(CHOOSE i \in at : \A j \in at : j <= i,
             LAMBDA e : Let(<<SubSeq(text, 1, e - 1), at \ {e}>>,
                            LAMBDA x : Unescape(x[1], x[2], width, char))
                        \o <<char[e]>> \o SubSeq(text, e + width, Len(text)))

\* the positions in text where sub stands
Occurs(text, sub) ==
    {i \in 1..(Len(text) - Len(sub) + 1) : \A j \in 1..Len(sub) : text[i + j - 1] = sub[j]}

\* conf_text.replace("\\n", "\n")
_normalize_config_text(text) ==
    Let(Occurs(text, <<"\\", "n">>),
        LAMBDA at : Unescape(text, at, 2, [i \in at |-> "\n"]))

\* unquote(conf_text): every "%" followed by two hex digits becomes the
\* character with that code point, every other character stays
_decode_config_text(text) ==
    Let({i \in Occurs(text, <<"%">>) :
            i + 2 <= Len(text) /\ IsHex(text[i + 1]) /\ IsHex(text[i + 2])},
        LAMBDA at :
            Unescape(text, at, 3,
                     [i \in at |-> Chr(16 * HexValue(text[i + 1]) + HexValue(text[i + 2]))]))

\* a or b for two values that are None or a non-empty str
Or(a, b) == IF a # Unset THEN a ELSE b

\* the list as it is, with its repetitions
Deduplicated_Keep(xs) == xs

\* list(dict.fromkeys(xs)): the elements of xs, each at its first place only
RECURSIVE Deduplicated(_)
Deduplicated(xs) ==
    IF xs = <<>> THEN <<>>
    ELSE Let(SubSeq(xs, 1, Len(xs) - 1),
             LAMBDA front :
                 Let(Deduplicated(front),
                     LAMBDA init : IF \E i \in 1..Len(init) : init[i] = xs[Len(xs)] THEN init
                                   ELSE Append(init, xs[Len(xs)])))

\* a field of the notes: the patterns on the decoded text, then on the
\* normalized text
Extract(decoded, normalized, patterns) ==
    Or(_extract_from_patterns(decoded, patterns), _extract_from_patterns(normalized, patterns))

\* parse_lxc_config, given the two views of conf_text (the fields read from
\* the notes; the notes carry no config entries)
ParseViews(normalized, decoded) ==
    [is_managed       |-> \/ \E p \in 1..Len(normalized) : AtIgnoreCase(normalized, p, MANAGED_RE)
                          \/ \E p \in 1..Len(decoded) : AtIgnoreCase(decoded, p, MANAGED_RE),
     oci_image        |-> Extract(decoded, normalized, <<OCI_MARKER_RE, OCI_VISIBLE_RE>>),
     application_id   |-> Extract(decoded, normalized, <<APP_ID_MARKER_RE, APP_ID_VISIBLE_RE>>),
     application_name |-> Extract(decoded, normalized, <<APP_NAME_MARKER_RE, APP_NAME_VISIBLE_RE>>),
     version          |-> Extract(decoded, normalized, <<VERSION_VISIBLE_RE>>),
     addons           |-> Let(_extract_all_matches(decoded, ADDON_MARKER_RE)
                              \o _extract_all_matches(normalized, ADDON_MARKER_RE),
                              LAMBDA found : Deduplicated(found)),
     username         |-> Extract(decoded, normalized, <<USERNAME_MARKER_RE>>),
     uid              |-> Extract(decoded, normalized, <<UID_MARKER_RE>>),
     gid              |-> Extract(decoded, normalized, <<GID_MARKER_RE>>)]

parse_lxc_config(text) ==
    Let(_normalize_config_text(text),
        LAMBDA normalized : Let(_decode_config_text(normalized),
                                LAMBDA decoded : ParseViews(normalized, decoded)))

-----------------------------------------------------------------------------
(* SpecParse: parse_lxc_config on notes of a few lines *)

\* lines per notes text
MaxNoteLines == 2

\* lines as the notes writers produce them, a marker without a value, and
\* percent-encoded ones
NoteLinePool ==
    {<<"<", "!", "-", "-", " ", "o", "c", "i", "-", "l", "x", "c", "-", "d", "e", "p",
       "l", "o", "y", "e", "r", ":", "a", "p", "p", "l", "i", "c", "a", "t", "i",
       "o", "n", "-", "i", "d", " ", "d", "e", "m", "o", " ", "-", "-", ">">>,
     <<"A", "p", "p", "l", "i", "c", "a", "t", "i", "o", "n", " ", "I", "D", ":", " ",
       "w", "e", "b">>,
     <<"<", "!", "-", "-", " ", "o", "c", "i", "-", "l", "x", "c", "-", "d", "e", "p",
       "l", "o", "y", "e", "r", ":", "a", "p", "p", "l", "i", "c", "a", "t", "i",
       "o", "n", "-", "i", "d", " ", " ", "-", "-", ">">>,
     <<"<", "!", "-", "-", " ", "o", "c", "i", "-", "l", "x", "c", "-", "d", "e", "p",
       "l", "o", "y", "e", "r", ":", "a", "p", "p", "l", "i", "c", "a", "t", "i",
       "o", "n", "-", "i", "d", " ", "%", "2", "0", " ", "-", "-", ">">>,
     <<"<", "!", "-", "-", " ", "o", "c", "i", "-", "l", "x", "c", "-", "d", "e", "p",
       "l", "o", "y", "e", "r", ":", "v", "e", "r", "s", "i", "o", "n", " ", "1",
       ".", "2", ".", "0", " ", "-", "-", ">">>,
     <<"V", "e", "r", "s", "i", "o", "n", ":", " ", "2", ".", "0">>,
     <<"<", "!", "-", "-", " ", "o", "c", "i", "-", "l", "x", "c", "-", "d", "e", "p",
       "l", "o", "y", "e", "r", ":", "o", "c", "i", "-", "i", "m", "a", "g", "e",
       " ", "i", "m", "g", " ", "-", "-", ">">>,
     <<"O", "C", "I", " ", "i", "m", "a", "g", "e", ":", " ", "a", "l", "t">>,
     <<"<", "!", "-", "-", " ", "o", "c", "i", "-", "l", "x", "c", "-", "d", "e", "p",
       "l", "o", "y", "e", "r", ":", "a", "p", "p", "l", "i", "c", "a", "t", "i",
       "o", "n", "-", "n", "a", "m", "e", " ", "A", "p", "p", " ", "-", "-", ">">>,
     <<"#", "#", " ", "W", "e", "b">>,
     <<"<", "!", "-", "-", " ", "o", "c", "i", "-", "l", "x", "c", "-", "d", "e", "p",
       "l", "o", "y", "e", "r", ":", "a", "d", "d", "o", "n", " ", "s", "s", "h",
       " ", "-", "-", ">">>,
     <<"<", "!", "-", "-", " ", "o", "c", "i", "-", "l", "x", "c", "-", "d", "e", "p",
       "l", "o", "y", "e", "r", ":", "a", "d", "d", "o", "n", " ", "s", "%", "6",
       "D", "b", " ", "-", "-", ">">>,
     <<"<", "!", "-", "-", " ", "O", "C", "I", "-", "L", "X", "C", "-", "D", "E", "P",
       "L", "O", "Y", "E", "R", ":", "A", "D", "D", "O", "N", " ", "s", "s", "h",
       " ", "-", "-", "%", "3", "E">>}

\* how the lines of a description are separated: by newlines, or by the
\* escaped newlines of a config file
LineSeparators == {<<"\n">>, <<"\\", "n">>}

RECURSIVE JoinWith(_, _)
JoinWith(sep, lines) ==
    IF Len(lines) = 0 THEN <<>>
    ELSE IF Len(lines) = 1 THEN lines[1]
    ELSE lines[1] \o sep \o JoinWith(sep, Tail(lines))

NoteTexts ==
    {<<>>} \cup NoteLinePool
    \cup UNION {{JoinWith(sep, lines) : lines \in [1..n -> NoteLinePool]} :
                   sep \in LineSeparators, n \in 2..MaxNoteLines}

ParseInit ==
    /\ pc = "start"
    /\ conf_text \in NoteTexts
    /\ config = <<>>
    /\ addon_ids = <<>>
    /\ first_desc = <<>>
    /\ current_desc = <<>>
    /\ kind = "u"
    /\ ids = <<>>
    /\ idmap_entries = <<>>
    /\ AllocIdle
    /\ StoresIdle
    /\ SetupIdle
    /\ latest = NoLatest
    /\ PoolIdle
    /\ NotesIdle
    /\ RaceIdle

\* config = parse_lxc_config(conf_text)
ParseLxcConfig ==
    /\ pc = "start"
    /\ \E normalized \in {_normalize_config_text(conf_text)} :
          \E decoded \in {_decode_config_text(normalized)} :
             config' = ParseViews(normalized, decoded)
    /\ pc' = "parsed"
    /\ UNCHANGED <<conf_text, addon_ids, first_desc, current_desc, allocVars, storeVars,
                   setupVars, latest, poolVars, notesVars, raceVars>>

ParseNext == ParseLxcConfig

SpecParse == ParseInit /\ [][ParseNext]_vars

-----------------------------------------------------------------------------
(* Properties of parse_lxc_config (checked under SpecParse) *)

\* the trimmed group of the first match of a pattern, <<>> without a match
Trimmed(text, pattern) ==
    IF Search(text, pattern) = NoMatch THEN <<>> ELSE Strip(Search(text, pattern).group)

\* the first text of the list that is not empty, None when all are empty
RECURSIVE FirstNonEmpty(_)
FirstNonEmpty(candidates) ==
    IF candidates = <<>> THEN Unset
    ELSE IF Head(candidates) # <<>> THEN Head(candidates)
    ELSE FirstNonEmpty(Tail(candidates))

\* marker first and visible line second, on the decoded text first and on the
\* normalized text second
MarkerThenVisible(text, marker, visible) ==
    LET normalized == _normalize_config_text(text)
        decoded == _decode_config_text(normalized)
    IN FirstNonEmpty(<<Trimmed(decoded, marker), Trimmed(decoded, visible),
                       Trimmed(normalized, marker), Trimmed(normalized, visible)>>)

\* the hidden marker the notes writers write for the version
VERSION_MARKER == Marker(<<"o", "c", "i", "-", "l", "x", "c", "-", "d", "e", "p", "l",
                           "o", "y", "e", "r", ":", "v", "e",
                           "r", "s", "i", "o", "n">>)

\* C21: each of the fields image reference, application id, application name
\* and version is the first non-empty trimmed match of: the hidden marker on
\* the decoded text, the visible line on the decoded text, the hidden marker on
\* the normalized text, the visible line on the normalized text; it is None
\* when there is no such match, and never an empty string.
C21_MarkerThenVisible ==
    pc = "parsed" =>
        /\ config.oci_image = MarkerThenVisible(conf_text, OCI_MARKER_RE, OCI_VISIBLE_RE)
        /\ config.application_id
               = MarkerThenVisible(conf_text, APP_ID_MARKER_RE, APP_ID_VISIBLE_RE)
        /\ config.application_name
               = MarkerThenVisible(conf_text, APP_NAME_MARKER_RE, APP_NAME_VISIBLE_RE)
        /\ config.version = MarkerThenVisible(conf_text, VERSION_MARKER, VERSION_VISIBLE_RE)
        /\ <<>> \notin {config.oci_image, config.application_id,
                        config.application_name, config.version}

\* the views of conf_text
NormalizedView == _normalize_config_text(conf_text)

DecodedView == _decode_config_text(NormalizedView)

\* the addon marker values of the decoded view followed by those of the
\* normalized view
AddonsSeen ==
    _extract_all_matches(DecodedView, ADDON_MARKER_RE)
    \o _extract_all_matches(NormalizedView, ADDON_MARKER_RE)

\* where v is first seen
FirstSeen(seen, v) == First(1, Len(seen), LAMBDA i : seen[i] = v)

\* C23: the addons list holds exactly the addon marker values found in the
\* decoded or in the normalized text, none of them twice, in the order in which
\* they are first seen when the decoded text is read before the normalized one.
C23_AddonsDeduplicated ==
    pc = "parsed" =>
        \A seen \in {AddonsSeen} :
            /\ Range(config.addons) = Range(seen)
            /\ \A i, j \in 1..Len(config.addons) :
                  i < j => /\ config.addons[i] # config.addons[j]
                           /\ FirstSeen(seen, config.addons[i])
                                  < FirstSeen(seen, config.addons[j])

\* a value stands in both views, another one in the normalized view only
C23_Witness ==
    /\ pc = "parsed"
    /\ \E i, j \in 1..Len(AddonsSeen) : i < j /\ AddonsSeen[i] = AddonsSeen[j]
    /\ \E v \in Range(_extract_all_matches(NormalizedView, ADDON_MARKER_RE)) :
          /\ v \notin Range(_extract_all_matches(DecodedView, ADDON_MARKER_RE))
          /\ config.addons[Len(config.addons)] = v
    /\ Len(config.addons) = 3

-----------------------------------------------------------------------------
(* SpecRoundTrip: the notes a writer hands to pct set, read back by
   parse_lxc_config *)

DemoId == <<"d", "e", "m", "o">>

DemoVersion == <<"1", ".", "2", ".", "0">>

DeployerUrl == <<"h", "t", "t", "p", "s", ":", "/", "/", "d">>

VeContext == <<"v", "e", "1">>

\* template variables without icon, user and host name: application id, name,
\* version, image and the two variables of the links are set or left to the
\* NOT_DEFINED placeholder
RoundTripTemplates ==
    { [template_path |-> NotDefined, oci_image |-> image, application_id |-> app_id,
       application_name |-> app_name, oci_image_tag |-> tag,
       deployer_base_url |-> IF links THEN DeployerUrl ELSE NotDefined,
       ve_context_key |-> IF links THEN VeContext ELSE NotDefined,
       hostname |-> NotDefined, icon_base64 |-> NotDefined, icon_mime_type |-> NotDefined,
       username |-> NotDefined, uid |-> NotDefined, gid |-> NotDefined] :
        image \in {NotDefined, OciImageValue}, app_id \in {NotDefined, DemoId},
        app_name \in {NotDefined, AppNameValue}, tag \in {NotDefined, DemoVersion},
        links \in BOOLEAN }

RoundTripInit ==
    /\ pc = "start"
    /\ writer \in Writers
    /\ template \in RoundTripTemplates
    /\ notes_with_icon = <<>>
    /\ notes_without_icon = <<>>
    /\ description = <<>>
    /\ kind = "u"
    /\ ids = <<>>
    /\ idmap_entries = <<>>
    /\ AllocIdle
    /\ StoresIdle
    /\ SetupIdle
    /\ latest = NoLatest
    /\ PoolIdle
    /\ ParseIdle
    /\ RaceIdle

\* config = parse_lxc_config(description)
ParseDescription ==
    /\ pc = "written"
    /\ conf_text' = description
    /\ \E normalized \in {_normalize_config_text(description)} :
          \E decoded \in {_decode_config_text(normalized)} :
             config' = ParseViews(normalized, decoded)
    /\ pc' = "parsed"
    /\ UNCHANGED <<addon_ids, first_desc, current_desc, allocVars, storeVars, setupVars,
                   latest, poolVars, notesVars, raceVars>>

RoundTripNext ==
    \/ WriteComposeNotes
    \/ WritePreStartNotes
    \/ WriteRootNotes
    \/ ParseDescription

SpecRoundTrip == RoundTripInit /\ [][RoundTripNext]_vars

-----------------------------------------------------------------------------
(* Properties of the round trip (checked under SpecRoundTrip) *)

\* application id "demo" and version "1.2.0", nothing else
DemoTemplate ==
    [template_path |-> NotDefined, oci_image |-> NotDefined, application_id |-> DemoId,
     application_name |-> NotDefined, oci_image_tag |-> DemoVersion,
     deployer_base_url |-> NotDefined, ve_context_key |-> NotDefined,
     hostname |-> NotDefined, icon_base64 |-> NotDefined, icon_mime_type |-> NotDefined,
     username |-> NotDefined, uid |-> NotDefined, gid |-> NotDefined]

\* C22: the notes every writer produces for application id "demo" and version
\* "1.2.0" (no application name, image, addons or links) are parsed back to
\* application_id "demo", version "1.2.0", no addons, and None for oci_image,
\* application_name, username, uid and gid.
C22_RoundTrip ==
    (pc = "parsed" /\ template = DemoTemplate) =>
        /\ config.application_id = DemoId
        /\ config.version = DemoVersion
        /\ config.addons = <<>>
        /\ config.oci_image = Unset
        /\ config.application_name = Unset
        /\ config.username = Unset
        /\ config.uid = Unset
        /\ config.gid = Unset

\* the notes of the demo template were written and parsed back
C22_Witness ==
    /\ pc = "parsed"
    /\ template = DemoTemplate
    /\ conf_text = description
    /\ Len(description) > 0
    /\ config.application_id = DemoId

-----------------------------------------------------------------------------
(* Two update_lxc_config_kind calls on one store, one per kind, each a
   separate process: the steps of one call are the file operations of lines
   127-151, and the steps of the two calls interleave unless the caller runs
   one call after the other *)

RaceInit ==
    /\ pc = "race"
    /\ kind = "u"
    /\ ids = <<>>
    /\ idmap_entries = <<>>
    /\ AllocIdle
    /\ sub_entries = <<>>
    /\ sub_file = NoFile
    /\ sub_before = NoFile
    /\ config_file \in StoresOf(ConfigLinePool, MaxStoreLines)
    /\ config_before = config_file
    /\ calls = 0
    /\ SetupIdle
    /\ \E uids \in StoreIdLists, gids \in StoreIdLists :
          latest = [k \in Kinds |->
                      calculate_idmap_entries(IF k = "u" THEN uids ELSE gids, k)]
    /\ PoolIdle
    /\ NotesIdle
    /\ ParseIdle
    /\ serialized \in BOOLEAN
    /\ proc = [k \in Kinds |-> [at |-> "start", lines |-> <<>>]]

\* the caller lets the call of kind k take a step: always when it does not
\* serialize, else only while the other call has not begun or has returned
MayStep(k) ==
    ~serialized \/ proc[IF k = "u" THEN "g" ELSE "u"].at \in {"start", "done"}

\* the bytes of data written at offset 0 of a file holding old
WriteAtStart(old, data) == data \o SubSeq(old, Len(data) + 1, Len(old))

\* if not config_path.exists():
StoreExists(k) ==
    /\ pc = "race"
    /\ proc[k].at = "start"
    /\ MayStep(k)
    /\ proc' = [proc EXCEPT ![k].at = IF config_file.exists THEN "read" ELSE "create"]
    /\ UNCHANGED <<pc, allocVars, storeVars, setupVars, latest, poolVars, notesVars,
                   parseVars, serialized>>

\* config_path.write_text("", encoding="utf-8")
StoreCreate(k) ==
    /\ pc = "race"
    /\ proc[k].at = "create"
    /\ MayStep(k)
    /\ config_file' = FileOf(<<>>)
    /\ proc' = [proc EXCEPT ![k].at = "read"]
    /\ UNCHANGED <<pc, allocVars, sub_entries, sub_file, sub_before, config_before, calls,
                   setupVars, latest, poolVars, notesVars, parseVars, serialized>>

\* lines = file_handle.readlines(), then the target lines dropped and the new
\* entries appended to the local list
StoreRead(k) ==
    /\ pc = "race"
    /\ proc[k].at = "read"
    /\ MayStep(k)
    /\ proc' = [proc EXCEPT ![k] =
                  [at    |-> "open",
                   lines |-> DropTargetLines(ReadLines(TextOf(config_file)), k)
                                 \o WithNewlines(latest[k])]]
    /\ UNCHANGED <<pc, allocVars, storeVars, setupVars, latest, poolVars, notesVars,
                   parseVars, serialized>>

\* open(config_path, "w") truncates the store
StoreOpen(k) ==
    /\ pc = "race"
    /\ proc[k].at = "open"
    /\ MayStep(k)
    /\ config_file' = FileOf(<<>>)
    /\ proc' = [proc EXCEPT ![k].at = "write"]
    /\ UNCHANGED <<pc, allocVars, sub_entries, sub_file, sub_before, config_before, calls,
                   setupVars, latest, poolVars, notesVars, parseVars, serialized>>

\* file_handle.writelines(lines), flushed when the with block closes the file:
\* one write at the handle's offset 0
StoreWrite(k) ==
    /\ pc = "race"
    /\ proc[k].at = "write"
    /\ MayStep(k)
    /\ config_file' = FileOf(WriteAtStart(TextOf(config_file), WriteLines(proc[k].lines)))
    /\ calls' = calls + 1
    /\ proc' = [proc EXCEPT ![k].at = "done"]
    /\ UNCHANGED <<pc, allocVars, sub_entries, sub_file, sub_before, config_before,
                   setupVars, latest, poolVars, notesVars, parseVars, serialized>>

RaceNext ==
    \/ \E k \in Kinds : StoreExists(k)
    \/ \E k \in Kinds : StoreCreate(k)
    \/ \E k \in Kinds : StoreRead(k)
    \/ \E k \in Kinds : StoreOpen(k)
    \/ \E k \in Kinds : StoreWrite(k)

SpecRace == RaceInit /\ [][RaceNext]_vars

-----------------------------------------------------------------------------
(* Properties of concurrent merges (checked under SpecRace) *)

BothReturned == \A k \in Kinds : proc[k].at = "done"

\* the store holds the new lines of kind k, in their order
HoldsNewLines(k) == IsSubsequence(latest[k], ContentLines(config_file))

\* C24: when the caller serializes the call for kind u and the call for kind g,
\* the store after both calls contains the new mapping lines of both kinds.
C24_SerializedKeepsBoth ==
    (serialized /\ BothReturned) => \A k \in Kinds : HoldsNewLines(k)

\* the lost update of C24: the calls were not serialized, the store was
\* missing or ended with a line terminator, and after both calls the new lines
\* of one kind are not in the store
C24_LostUpdate ==
    /\ ~serialized
    /\ BothReturned
    /\ (TextOf(config_before) = <<>>
          \/ TextOf(config_before)[Len(TextOf(config_before))] = "\n")
    /\ \E k \in Kinds : ~HoldsNewLines(k)

-----------------------------------------------------------------------------
(* setup_idmap without a numeric vm_id (checked under SpecSetup) *)

\* vm_id is absent, the NOT_DEFINED placeholder, or not a number
NoNumericVmId == ~(Len(vm_id) > 0 /\ IsDigits(vm_id))

\* the call went past the empty-request return without a numeric vm_id
RequestWithoutVmId == pc = "done" /\ raised = "" /\ ids # <<>> /\ NoNumericVmId

\* C25: when setup_idmap is called with a non-empty id set but no numeric vm_id
\* (absent, NOT_DEFINED or non-numeric), no config store is created or
\* modified, no mapping entries are computed, the segments default to the
\* single whole-space shift segment (0, 100000, 65536), the reported host id is
\* 100000 + the smallest requested id, and the authorization store holds the
\* passthrough entry root:<id>:1 of every requested id.
C25_NoVmIdDefaultsToShift ==
    RequestWithoutVmId =>
        /\ config_file = config_before
        /\ idmap_entries = <<>>
        /\ segments = << <<0, STANDARD_START, 65536>> >>
        /\ \A i \in Range(ids) : ids[1] <= i
        /\ mapped_val = STANDARD_START + ids[1]
        /\ stdout = <<[id |-> IF kind = "u" THEN "mapped_uid" ELSE "mapped_gid",
                      value |-> Dec(STANDARD_START + ids[1])]>>
        /\ \A i \in Range(ids) : Occurrences(sub_file, SubidLine(i, 1)) >= 1

C25_Witness ==
    /\ RequestWithoutVmId
    /\ vm_id = <<"c", "t">>
    /\ id_str = Dec(2000) \o <<",", " ">> \o Dec(1000)
    /\ config_before.exists
    /\ config_file = config_before
    /\ ~sub_before.exists
    /\ mapped_val = 101000
    /\ Occurrences(sub_file, SubidLine(2000, 1)) = 1

-----------------------------------------------------------------------------
(* The written mapping against the authorization store (checked under
   SpecSetup) *)

\* setup_idmap returned after writing the mapping of a numeric vm_id
MappingWritten ==
    pc = "done" /\ raised = "" /\ ids # <<>> /\ ~NoNumericVmId /\ idmap_entries # <<>>

\* the host ids of a written segment are authorized the way the segment needs:
\* a passthrough segment by its own entry root:<id>:1, a shifted segment by
\* the base entry root:100000:65536, inside whose range it must lie
SegmentAuthorized(seg) ==
    IF seg[1] = seg[2]
    THEN seg[3] = 1 /\ Occurrences(sub_file, SubidLine(seg[2], 1)) >= 1
    ELSE /\ STANDARD_START <= seg[2]
         /\ seg[2] + seg[3] <= STANDARD_START + STANDARD_COUNT
         /\ Occurrences(sub_file, SubidLine(STANDARD_START, STANDARD_COUNT)) >= 1

\* C26: after setup_idmap completes for a numeric vm_id and a non-empty id set
\* within [0, 65536), every host id that the written mapping assigns to some
\* container id is authorized by an entry of the authorization store: shifted
\* host ids lie in [100000, 100000 + 65536), covered by the base entry
\* root:100000:65536 of the store, and each passthrough host id has its own
\* entry root:<id>:1 in the store.
C26_MappingAuthorized ==
    MappingWritten =>
        \A seg \in Range(parse_idmap_lines(WithNewlines(idmap_entries), kind)) :
            SegmentAuthorized(seg)

C26_Witness ==
    /\ MappingWritten
    /\ id_str = Dec(1000) \o <<",">> \o Dec(2000)
    /\ ~sub_before.exists
    /\ Len(parse_idmap_lines(WithNewlines(idmap_entries), kind)) = 5
    /\ C26_MappingAuthorized

-----------------------------------------------------------------------------
(* The host side of the allocator's mapping (checked under SpecAlloc) *)

\* no two spans of sp share a host id
HostDisjoint(sp) ==
    \A i, j \in DOMAIN sp :
        i < j => \/ sp[i][2] + sp[i][3] <= sp[j][2]
                 \/ sp[j][2] + sp[j][3] <= sp[i][2]

\* C27: the mapping produced by calculate_idmap_entries is injective on the
\* host side: for every non-empty S within [0, 65536) the host-side ranges
\* [host_start, host_start + range) of the emitted entries are pairwise
\* disjoint, and no probed container id other than the resolved one resolves
\* to the same host id.
C27_HostInjective ==
    /\ Allocated =>
          /\ \A i \in DOMAIN Spans : Spans[i] # <<>>
          /\ HostDisjoint(Spans)
    /\ (pc = "resolved" /\ ids # <<>>) =>
          \A c \in ProbeIds \ {container_id} :
              compute_host_id_for_container_id(c, segments, unprivileged) # mapped_val

C27_Witness ==
    /\ pc = "resolved"
    /\ S = {1000, 65535}
    /\ Len(segments) = 4
    /\ HostDisjoint(segments)
    /\ container_id = 1001
    /\ mapped_val = 101000

-----------------------------------------------------------------------------
(* Container id 0 in the id string of setup_idmap (checked under SpecSetup) *)

\* some entry of entries maps container id 0 to host id 0
MapsRootToRoot(entries, k) ==
    \E seg \in Range(parse_idmap_lines(WithNewlines(entries), k)) :
        seg[1] = 0 /\ seg[2] = 0 /\ seg[3] >= 1

\* C28: container id 0 (root) is never a passthrough identity: parse_ids treats
\* "0" as "not set", and for every id string accepted by parse_ids (also a
\* comma-separated list that holds 0 next to other ids) no mapping line written
\* by setup_idmap maps container id 0 to host id 0 and no authorization entry
\* root:0:1 is appended.
C28_RootNeverPassthrough ==
    (pc = "done" /\ raised = "") =>
        /\ Strip(id_str) = <<"0">> => ids = <<>>
        /\ ~MapsRootToRoot(idmap_entries, kind)
        /\ ~MapsRootToRoot(MappingLinesOfKind(config_file, kind), kind)
        /\ Occurrences(sub_file, SubidLine(0, 1)) = 0
        /\ IsPrefix(TextOf(sub_before), TextOf(sub_file)) =>
              LET appended == SubSeq(TextOf(sub_file), Len(TextOf(sub_before)) + 1,
                                     Len(TextOf(sub_file)))
              IN SubidLine(0, 1) \notin Range(ContentLines(FileOf(appended)))

\* setup_idmap with the id string "0,1000" and a numeric vm_id wrote the
\* passthrough line of container id 0 and appended root:0:1
C28_Witness ==
    /\ pc = "done"
    /\ raised = ""
    /\ id_str = <<"0", ",">> \o Dec(1000)
    /\ vm_id = Dec(101)
    /\ ids = <<0, 1000>>
    /\ idmap_entries[1] = IdmapLine(kind, 0, 0, 1)
    /\ ~config_before.exists
    /\ ContentLines(config_file)[1] = IdmapLine(kind, 0, 0, 1)
    /\ ~sub_before.exists
    /\ Occurrences(sub_file, SubidLine(0, 1)) = 1

-----------------------------------------------------------------------------
(* insert_addon_marker of host-update-lxc-notes-addon.py *)

\* f"<!-- oci-lxc-deployer:addon {addon_id} -->"
build_addon_marker(addon_id) ==
    <<"<", "!", "-", "-", " ", "o", "c", "i", "-", "l", "x", "c", "-", "d", "e", "p",
      "l", "o", "y", "e", "r", ":", "a", "d", "d", "o", "n", " ">> \o addon_id \o <<" ", "-", "-", ">">>

\* "oci-lxc-deployer:" in line and line.strip().startswith("<!--")
IsMarkerComment(line) ==
    /\ Occurs(line, <<"o", "c", "i", "-", "l", "x", "c", "-", "d", "e", "p", "l", "o",
                      "y", "e", "r", ":">>) # {}
    /\ StartsWith(Strip(line), <<"<", "!", "-", "-">>)

insert_addon_marker(desc, addon_id) ==
    LET marker  == build_addon_marker(addon_id)
        lines   == SplitOn(desc, "\n")
        headers == {i \in DOMAIN lines : StartsWith(Strip(lines[i]), <<"#", "#">>)}
        markers == {i \in DOMAIN lines : IsMarkerComment(lines[i])}
        \* the number of lines that stay before the marker
        before  == IF headers # {} THEN SetMin(headers) - 1
                   ELSE IF markers # {} THEN CHOOSE i \in markers : \A j \in markers : j <= i
                   ELSE 0
    IN IF Occurs(desc, <<"o", "c", "i", "-", "l", "x", "c", "-", "d", "e", "p", "l",
                         "o", "y", "e", "r", ":", "a", "d", "d",
                         "o", "n", " ">> \o addon_id) # {}
       THEN desc
       ELSE JoinLines(SubSeq(lines, 1, before) \o <<marker>>
                          \o SubSeq(lines, before + 1, Len(lines)), FALSE)

-----------------------------------------------------------------------------
(* Addon markers inserted one after the other into the notes of a container,
   and the notes parsed after each insertion *)

\* most insertions into one description
MaxInserts == 3

\* addon ids: one is a prefix of another
AddonIds == { <<"s", "s", "h">>, <<"s", "s", "h", "-", "s", "e", "r", "v", "e", "r">>, <<"s", "m", "b">> }

\* lines of a description: a hidden marker, a visible heading, the marker of
\* an addon, plain text
AddonNoteLines ==
    { <<"<", "!", "-", "-", " ", "o", "c", "i", "-", "l", "x", "c", "-", "d", "e", "p",
        "l", "o", "y", "e", "r", ":", "m", "a", "n", "a", "g", "e", "d", " ",
        "-", "-", ">">>,
      <<"#", "#", " ", "W", "e", "b">>,
      <<"<", "!", "-", "-", " ", "o", "c", "i", "-", "l", "x", "c", "-", "d", "e", "p",
        "l", "o", "y", "e", "r", ":", "a", "d", "d", "o", "n", " ", "s", "s",
        "h", "-", "s", "e", "r", "v", "e", "r", " ", "-", "-", ">">>,
      <<"N", "o", "t", "e", "s">> }

\* the empty description and every description of 1 to MaxNoteLines lines
AddonDescriptions ==
    {<<>>} \cup {JoinLines(ls, FALSE) :
                    ls \in UNION {[1..n -> AddonNoteLines] : n \in 1..MaxNoteLines}}

AddonInit ==
    /\ pc = "notes"
    /\ description \in AddonDescriptions
    /\ first_desc = description
    /\ current_desc = description
    /\ addon_ids = <<>>
    /\ conf_text = <<>>
    /\ config = <<>>
    /\ writer = ""
    /\ template = <<>>
    /\ notes_with_icon = <<>>
    /\ notes_without_icon = <<>>
    /\ kind = "u"
    /\ ids = <<>>
    /\ idmap_entries = <<>>
    /\ AllocIdle
    /\ StoresIdle
    /\ SetupIdle
    /\ latest = NoLatest
    /\ PoolIdle
    /\ RaceIdle

\* main: new_desc = insert_addon_marker(current_desc, addon_id), handed to
\* `pct set <vm_id> --description`; when main finds the marker text itself it
\* leaves the description as it is, which is what insert_addon_marker returns
InsertAddonMarker ==
    /\ pc = "notes"
    /\ Len(addon_ids) < MaxInserts
    /\ \E addon_id \in AddonIds :
          \E new_desc \in {insert_addon_marker(description, addon_id)} :
             /\ description' = new_desc
             /\ addon_ids' = Append(addon_ids, addon_id)
    /\ current_desc' = description
    /\ pc' = "updated"
    /\ UNCHANGED <<conf_text, config, first_desc, writer, template, notes_with_icon,
                   notes_without_icon, allocVars, storeVars, setupVars, latest, poolVars,
                   raceVars>>

\* config = parse_lxc_config(description)
ParseUpdatedNotes ==
    /\ pc = "updated"
    /\ conf_text' = description
    /\ \E normalized \in {_normalize_config_text(description)} :
          \E decoded \in {_decode_config_text(normalized)} :
             config' = ParseViews(normalized, decoded)
    /\ pc' = "notes"
    /\ UNCHANGED <<addon_ids, first_desc, current_desc, allocVars, storeVars, setupVars,
                   latest, poolVars, notesVars, raceVars>>

AddonNext == InsertAddonMarker \/ ParseUpdatedNotes

SpecAddon == AddonInit /\ [][AddonNext]_vars

-----------------------------------------------------------------------------
(* Properties of insert_addon_marker (checked under SpecAddon) *)

\* the addon id of the last insertion
LastAddon == addon_ids[Len(addon_ids)]

\* the insertions so far were of distinct addon ids
DistinctAddons == \A i, j \in DOMAIN addon_ids : i < j => addon_ids[i] # addon_ids[j]

\* the last insertion is done and the notes were parsed after it
InsertedAndParsed == pc = "notes" /\ addon_ids # <<>>

\* C29: insert_addon_marker inserts the addon marker if and only if it is not
\* already present: after insert_addon_marker(d, a) the addon list extracted
\* from the result contains a exactly once; applying it again with the same a
\* returns the text unchanged; and after any sequence of insertions of distinct
\* addon ids (also ids where one is a prefix of another) every inserted id is
\* in the extracted addon list and all text of the first description is
\* preserved in order.
C29_InsertOnceKeepText ==
    InsertedAndParsed =>
        /\ Cardinality({i \in DOMAIN config.addons : config.addons[i] = LastAddon}) = 1
        /\ insert_addon_marker(description, LastAddon) = description
        /\ DistinctAddons => \A i \in DOMAIN addon_ids :
                                \E j \in DOMAIN config.addons : config.addons[j] = addon_ids[i]
        /\ IsSubsequence(SplitOn(first_desc, "\n"), SplitOn(description, "\n"))

\* ssh-server was inserted, then ssh, and the notes hold no marker of ssh
C29_Witness ==
    /\ InsertedAndParsed
    /\ first_desc = <<"#", "#", " ", "W", "e", "b">>
    /\ addon_ids = << <<"s", "s", "h", "-", "s", "e", "r", "v", "e", "r">>, <<"s", "s", "h">> >>
    /\ description = current_desc
    /\ config.addons = << <<"s", "s", "h", "-", "s", "e", "r", "v", "e", "r">> >>

====
